---- MODULE Spec2Model ----
(***************************************************************************)
(* Model of the Monomer Bio closed-loop media optimisation helpers:        *)
(*   src/monomer/transfers.py   composition solver, transfer-array         *)
(*                              generator, tip consumption estimate        *)
(*   src/track-2a-closed-loop/examples/basic_agent.py   gradient update,   *)
(*                              the closed loop of run_agent               *)
(*   src/track-2a-closed-loop/examples/starter_agent.py  its run_agent     *)
(*   src/monomer/workflows.py   instantiate_workflow and the outcomes of   *)
(*                              poll_workflow_completion                   *)
(*                                                                         *)
(* Numbers.  Python ints are unbounded, so are the model's.  A proposed    *)
(* volume may be a float: it is modelled as a count of halves (h stands    *)
(* for h/2), which is enough to exercise int(round(x)).  Growth responses  *)
(* are floats: they are modelled as counts of halves too, a dyadic grid on *)
(* which the float arithmetic of the update step is exact.                 *)
(***************************************************************************)
EXTENDS Integers, Sequences, FiniteSets, TLC

VARIABLES
    mode,            \* which component this behaviour exercises
    pc,              \* position inside the component
    cfg,             \* apply_constraints: the keyword arguments of the call
    supplements,     \* apply_constraints: the proposed mapping, in halves
    result,          \* apply_constraints: the local `result`
    pass,            \* 1 until the component's first call returned, then 2
    first,           \* apply_constraints: the value returned by the first call
    loop_count,      \* apply_constraints: iterations of the while loop, modulo 2
    center,          \* generate_transfer_array / run_agent: the center mapping
    solved,          \* generate_transfer_array: center came from apply_constraints
    column_index,    \* generate_transfer_array: the destination column
    transfers,       \* generate_transfer_array: the returned list
    transfer_array,  \* compute_tip_consumption: the list passed in
    original_array,  \* compute_tip_consumption: the list before any reordering
    reuse_source_wells, \* compute_tip_consumption: the reuse set
    tips,            \* compute_tip_consumption: the last estimate returned
    first_tips,      \* compute_tip_consumption: the estimate of the original list
    parsed,          \* run_agent: the parsed responses of the iteration
    adjustments,     \* run_agent: the per-supplement `adjustment`
    new_center,      \* run_agent: the raw mapping before apply_constraints
    history,         \* run_agent: the list of iteration records
    agent,           \* run_agent: which example agent runs ("basic" or "starter")
    helpers,         \* run_agent: which monomer.workflows signatures it runs against
    n_iterations,    \* run_agent: the requested number of iterations
    iteration,       \* run_agent: the loop variable
    dest_wells,      \* run_agent: the destination wells of the iteration
    monitoring_wells, \* run_agent: the cumulative monitoring wells
    seed_well,       \* run_agent (basic): the seed well of the iteration
    next_seed_well,  \* run_agent (basic): the seed well of the next iteration
    uuid,            \* run_agent: the instance id returned by instantiate_workflow
    od,              \* run_agent (starter): the growth deltas of the iteration
    submissions,     \* the instantiate_workflow requests received by the workcell
    polled,          \* the instance ids passed to poll_workflow_completion
    outcomes,        \* what each poll_workflow_completion call ended with
    log,             \* the phases executed so far, as <<phase, iteration>>
    persisted,       \* the content of runs/history.json
    error,           \* the exception that ended the run, "" if none
    extra_inputs,    \* instantiate_workflow: the keyword argument of the call
    now,             \* poll_workflow_completion: time.time(), in ticks
    deadline,        \* poll_workflow_completion: the local `deadline`
    poll_interval,   \* poll_workflow_completion: the argument, in ticks
    events,          \* poll_workflow_completion: requests, responses and sleeps
    instance,        \* poll_workflow_completion: the status of the last response
    readings,        \* fetch_absorbance_results: resultsByWell, timestamp to wells
    raw,             \* fetch_absorbance_results: the returned baseline and endpoint
    session_id,      \* McpClient: self.session_id
    next_id,         \* McpClient: self._next_id
    sent             \* McpClient: the requests posted so far

fetch_vars == <<readings, raw>>
mcp_vars == <<session_id, next_id, sent>>

vars == <<mode, pc, cfg, supplements, result, pass, first, loop_count, center,
          solved,
          column_index, transfers, transfer_array, original_array,
          reuse_source_wells, tips, first_tips, parsed, adjustments, new_center,
          history, agent, helpers, n_iterations, iteration, dest_wells,
          monitoring_wells, seed_well, next_seed_well, uuid, od, submissions,
          polled, outcomes, log, persisted, error, extra_inputs, now, deadline,
          poll_interval, events, instance,
          fetch_vars, mcp_vars>>

solver_vars == <<cfg, supplements, result, pass, first, loop_count>>
gen_vars == <<center, solved, column_index, transfers>>
tip_vars == <<transfer_array, original_array, reuse_source_wells, tips, first_tips>>
grad_vars == <<parsed, adjustments, new_center, history>>
run_vars == <<agent, helpers, n_iterations, iteration, dest_wells, monitoring_wells,
              seed_well, next_seed_well, uuid, od, submissions, polled, outcomes,
              log, persisted, error, extra_inputs, now, deadline, poll_interval,
              events, instance,
              fetch_vars, mcp_vars>>

----------------------------------------------------------------------------
(* Program constants, src/monomer/transfers.py *)

ROWS == <<"A", "B", "C", "D", "E", "F", "G", "H">>

SUPPLEMENT_NAMES == <<"Glucose", "NaCl", "MgSO4">>

Names == {SUPPLEMENT_NAMES[i] : i \in 1..Len(SUPPLEMENT_NAMES)}

REAGENT_WELLS ==
    [n \in Names \cup {"Novel_Bio"} |->
        CASE n = "Glucose" -> "A1"
          [] n = "NaCl" -> "B1"
          [] n = "MgSO4" -> "C1"
          [] OTHER -> "D1"]

WELL_VOLUME_UL == 180
MIN_SUPPLEMENT_UL == 1
MAX_SUPPLEMENT_UL == 90
MIN_NOVEL_BIO_UL == 90
DELTA_UL == 10

REUSE_TIP_SOURCE_WELLS == {REAGENT_WELLS["Novel_Bio"]}

\* The default keyword arguments of apply_constraints.
DefaultCfg ==
    [min_ul |-> MIN_SUPPLEMENT_UL, max_ul |-> MAX_SUPPLEMENT_UL,
     min_novel_bio |-> MIN_NOVEL_BIO_UL, well_volume |-> WELL_VOLUME_UL,
     delta |-> DELTA_UL]

----------------------------------------------------------------------------
(* Arithmetic helpers *)

Max(a, b) == IF a >= b THEN a ELSE b
Min(a, b) == IF a <= b THEN a ELSE b

\* The empty value of a variable the current component does not use.
None == "None"

\* The argument reuse_source_wells of compute_tip_consumption: None, or wells.
NoReuseArg == [is_none |-> TRUE, wells |-> {}]
ReuseArg(wells) == [is_none |-> FALSE, wells |-> wells]

\* runs/history.json: not written yet, or holding a list of records.
NoFile == [written |-> FALSE, records |-> <<>>]
FileWith(records) == [written |-> TRUE, records |-> records]

\* The keyword argument extra_inputs of a call: absent, or a mapping.
NoExtraInputs == [given |-> FALSE, value |-> <<>>]
ExtraInputs(value) == [given |-> TRUE, value |-> value]

\* The variables of fetch_absorbance_results and of McpClient outside their
\* own behaviours.
NoFetch == readings = None /\ raw = None
NoMcp == session_id = None /\ next_id = 1 /\ sent = <<>>

\* The variables of poll_workflow_completion outside its own behaviours.
NoPoll ==
    /\ now = 0 /\ deadline = 0 /\ poll_interval = 0 /\ events = <<>>
    /\ instance = None
    /\ NoFetch /\ NoMcp

\* The variables of run_agent in the behaviours that do not run an agent.
NoRun ==
    /\ agent = None /\ helpers = None /\ n_iterations = 0 /\ iteration = 0
    /\ dest_wells = <<>> /\ monitoring_wells = <<>>
    /\ seed_well = <<>> /\ next_seed_well = <<>>
    /\ uuid = 0 /\ od = None /\ submissions = <<>> /\ polled = <<>>
    /\ outcomes = <<>> /\ log = <<>> /\ persisted = NoFile /\ error = ""
    /\ extra_inputs = NoExtraInputs
    /\ NoPoll

----------------------------------------------------------------------------
(* Composition helpers, src/monomer/transfers.py *)

\* sum(supplements.values()) over the names in `names`.
RECURSIVE sum_values(_, _)
sum_values(m, names) ==
    IF names = <<>> THEN 0 ELSE m[Head(names)] + sum_values(m, Tail(names))

compute_novel_bio(m, well_volume) == well_volume - sum_values(m, SUPPLEMENT_NAMES)

\* int(round(x)) for x = h/2: Python rounds a tie to the even neighbour.
int_round(h) ==
    IF h % 2 = 0 THEN h \div 2
    ELSE LET lo == (h - 1) \div 2
         IN IF lo % 2 = 0 THEN lo ELSE lo + 1

\* An integer volume as a proposed value (a count of halves).
as_proposed(m) == [n \in DOMAIN m |-> 2 * m[n]]

\* Lines 78-80: below min_ul collapses to 0, then the cap at max_ul.
clamp_volume(vol, c) ==
    LET collapsed == IF vol < c.min_ul THEN 0 ELSE vol
    IN Min(collapsed, c.max_ul)

\* Line 77: supplements.get(name, 0), the value of a key or the default.
get_or_next(m, key, default) == IF key \in DOMAIN m THEN m[key] ELSE default + 2
get(m, key, default) == IF key \in DOMAIN m THEN m[key] ELSE default

\* Lines 75-81: the first loop of apply_constraints.
clamp(proposed, c) ==
    [n \in Names |-> clamp_volume(int_round(get(proposed, n, 0)), c)]

\* Line 85: the condition of the while loop.
needs_repair_wrong_floor(r, c) == compute_novel_bio(r, c.well_volume) < c.min_ul
needs_repair(r, c) == compute_novel_bio(r, c.well_volume) < c.min_novel_bio

\* Line 86: max(supplement_names, key=...) returns the first maximal name.
largest_last(r) ==
    LET i == CHOOSE i \in 1..Len(SUPPLEMENT_NAMES) :
                /\ \A j \in 1..Len(SUPPLEMENT_NAMES) :
                       r[SUPPLEMENT_NAMES[j]] <= r[SUPPLEMENT_NAMES[i]]
                /\ \A j \in (i + 1)..Len(SUPPLEMENT_NAMES) :
                       r[SUPPLEMENT_NAMES[j]] < r[SUPPLEMENT_NAMES[i]]
    IN SUPPLEMENT_NAMES[i]
largest(r) ==
    LET i == CHOOSE i \in 1..Len(SUPPLEMENT_NAMES) :
                /\ \A j \in 1..Len(SUPPLEMENT_NAMES) :
                       r[SUPPLEMENT_NAMES[j]] <= r[SUPPLEMENT_NAMES[i]]
                /\ \A j \in 1..(i - 1) :
                       r[SUPPLEMENT_NAMES[j]] < r[SUPPLEMENT_NAMES[i]]
    IN SUPPLEMENT_NAMES[i]

\* Line 89: one reduction of the largest supplement.
reduce_largest(r, c) ==
    [r EXCEPT ![largest(r)] = Max(0, r[largest(r)] - c.delta)]

\* Lines 85-90: the while loop, run to its exit.
RECURSIVE repair(_, _)
repair(r, c) ==
    IF ~needs_repair(r, c) THEN r
    ELSE IF r[largest(r)] <= 0 THEN r
    ELSE repair(reduce_largest(r, c), c)

\* Lines 58-92, as a function (used by make_perturbed and run_agent).
apply_constraints(proposed, c) == repair(clamp(proposed, c), c)

----------------------------------------------------------------------------
(* Bounds of the solver's inputs *)

\* Small configurations: min_ul in 1..MaxMinUl, delta in 1..MaxDelta.
MaxMinUl == 2
MaxDelta == 3
SmallMaxUl == 4
SmallWell == 10
\* Default configuration: proposals on a grid of GridStep, up to GridStep * MaxGrid.
GridStep == 15
MaxGrid == 7

SmallConfigs ==
    [min_ul : 1..MaxMinUl, max_ul : {SmallMaxUl},
     min_novel_bio : {SmallWell \div 2, SmallWell + 2},
     well_volume : {SmallWell}, delta : 1..MaxDelta]

Configs == {DefaultCfg} \cup SmallConfigs

\* Proposed values in halves: every half from -1/2 to max_ul + 1.
SmallHalves == -1..(2 * SmallMaxUl + 2)

\* Proposed values in halves for the default configuration: the values around
\* min_ul, the grid, and the values around max_ul.
DefaultHalves ==
    {-1, 0, 1, 2, 3, 5}
    \cup {2 * GridStep * i : i \in 1..MaxGrid}
    \cup {2 * MAX_SUPPLEMENT_UL - 1, 2 * MAX_SUPPLEMENT_UL, 2 * MAX_SUPPLEMENT_UL + 1}

ProposedHalves(c) == IF c = DefaultCfg THEN DefaultHalves ELSE SmallHalves

----------------------------------------------------------------------------
(* apply_constraints as a state machine, one step per loop iteration *)

SolverInit ==
    /\ NoRun
    /\ mode = "solver"
    /\ pc = "start"
    /\ cfg \in Configs
    /\ supplements \in [Names -> ProposedHalves(cfg)]
    /\ result = None
    /\ pass = 1
    /\ loop_count = 0
    /\ first = None
    /\ center = None /\ solved = FALSE /\ column_index = 0 /\ transfers = <<>>
    /\ transfer_array = <<>> /\ original_array = <<>>
    /\ reuse_source_wells = NoReuseArg /\ tips = None /\ first_tips = None
    /\ parsed = None /\ adjustments = None /\ new_center = None /\ history = <<>>

\* Lines 75-81.
Clamp ==
    /\ mode = "solver" /\ pc = "start"
    /\ result' = clamp(supplements, cfg)
    /\ pc' = "loop"
    /\ UNCHANGED <<mode, cfg, supplements, pass, first, loop_count, gen_vars, tip_vars,
                   grad_vars, run_vars>>

\* Bound: Python integers are unbounded; a value that a negative delta has
\* raised MaxGrowth above max_ul is held there.  No positive delta raises a
\* value, and a sum that only grows keeps the filler where line 85 found it,
\* below the floor.
MaxGrowth == 3
value_cap(c) == c.max_ul + MaxGrowth
held(r, c) == [n \in Names |-> Min(r[n], value_cap(c))]

\* Lines 85-90: one iteration of the while loop that does not break.
RepairStep ==
    /\ mode = "solver" /\ pc = "loop"
    /\ needs_repair(result, cfg)
    /\ result[largest(result)] > 0
    /\ result' = held(reduce_largest(result, cfg), cfg)
    /\ loop_count' = (loop_count + 1) % 2
    /\ UNCHANGED <<mode, pc, cfg, supplements, pass, first, gen_vars, tip_vars, grad_vars, run_vars>>

\* Lines 85, 87-88, 92: the loop condition fails or the break is taken; return.
Return ==
    /\ mode = "solver" /\ pc = "loop"
    /\ \/ ~needs_repair(result, cfg)
       \/ result[largest(result)] <= 0
    /\ pc' = "done"
    /\ first' = IF pass = 1 THEN result ELSE first
    /\ loop_count' = 0
    /\ UNCHANGED <<mode, cfg, supplements, result, pass, gen_vars, tip_vars, grad_vars, run_vars>>

\* A caller passes the returned mapping to apply_constraints again.
Reapply ==
    /\ mode = "solver" /\ pc = "done" /\ pass = 1
    /\ supplements' = as_proposed(result)
    /\ result' = None
    /\ pass' = 2
    /\ pc' = "start"
    /\ UNCHANGED <<mode, cfg, first, loop_count, gen_vars, tip_vars, grad_vars, run_vars>>

SolverNext == Clamp \/ RepairStep \/ Return \/ Reapply

SolverSpec == SolverInit /\ [][SolverNext]_vars

----------------------------------------------------------------------------
(* apply_constraints called with any integer step size *)

\* The small configurations with min_ul = 1 and delta any integer from
\* -MaxDelta to MaxDelta: line 65 accepts every int.
StepConfigs ==
    [min_ul : {1}, max_ul : {SmallMaxUl},
     min_novel_bio : {SmallWell \div 2, SmallWell + 2},
     well_volume : {SmallWell}, delta : (0 - MaxDelta)..MaxDelta]

\* Proposed values in halves: the whole volumes from 0 to max_ul.
StepHalves == {2 * v : v \in 0..SmallMaxUl}

\* Before the call `result` and the first returned value hold no volumes.
StepInit ==
    /\ NoRun
    /\ mode = "solver"
    /\ pc = "start"
    /\ cfg \in StepConfigs
    /\ supplements \in [Names -> StepHalves]
    /\ result = [n \in Names |-> 0]
    /\ pass = 1
    /\ loop_count = 0
    /\ first = [n \in Names |-> 0]
    /\ center = None /\ solved = FALSE /\ column_index = 0 /\ transfers = <<>>
    /\ transfer_array = <<>> /\ original_array = <<>>
    /\ reuse_source_wells = NoReuseArg /\ tips = None /\ first_tips = None
    /\ parsed = None /\ adjustments = None /\ new_center = None /\ history = <<>>

\* One call, run to its return.
StepNext == Clamp \/ RepairStep \/ Return

\* The interpreter keeps executing the call: a step that can be taken is
\* taken eventually.
StepSpec == StepInit /\ [][StepNext]_vars /\ WF_vars(StepNext)

----------------------------------------------------------------------------
(* apply_constraints called with mappings over other key sets *)

\* A key that is not a supplement name.
OtherKey == "Tryptone"

\* The configurations of these calls: the defaults and the small ones with
\* the smallest min_ul and delta.
PartialConfigs ==
    {DefaultCfg} \cup {c \in SmallConfigs : c.min_ul = 1 /\ c.delta = 1}

\* Proposed values in halves: those around 0 and those from max_ul up.
PartialHalves(c) == {h \in ProposedHalves(c) : h <= 1 \/ h >= 2 * c.max_ul}

\* Every mapping over a subset of the names, with or without the other key.
PartialInit ==
    /\ NoRun
    /\ mode = "solver"
    /\ pc = "start"
    /\ cfg \in PartialConfigs
    /\ \E keys \in SUBSET (Names \cup {OtherKey}) :
          supplements \in [keys -> PartialHalves(cfg)]
    /\ result = None
    /\ pass = 1
    /\ loop_count = 0
    /\ first = None
    /\ center = None /\ solved = FALSE /\ column_index = 0 /\ transfers = <<>>
    /\ transfer_array = <<>> /\ original_array = <<>>
    /\ reuse_source_wells = NoReuseArg /\ tips = None /\ first_tips = None
    /\ parsed = None /\ adjustments = None /\ new_center = None /\ history = <<>>

PartialSpec == PartialInit /\ [][SolverNext]_vars

----------------------------------------------------------------------------
(* Transfer array generation, src/monomer/transfers.py *)

\* f"{row}{col}": a destination well of the experiment plate.
well(row, col) == <<row, col>>

\* A transfer is [source_well, dest_well, volume_uL].
source_of(t) == t[1]
dest_of(t) == t[2]
volume_of(t) == t[3]

\* Lines 95-99: center plus delta on one axis, through apply_constraints with
\* its default arguments.
make_perturbed_unsolved(c, supplement_name, delta) ==
    [c EXCEPT ![supplement_name] = c[supplement_name] + delta]
make_perturbed(c, supplement_name, delta) ==
    apply_constraints(
        as_proposed([c EXCEPT ![supplement_name] = c[supplement_name] + delta]),
        DefaultCfg)

\* Line 97: copy.deepcopy(center) is a new object, named "perturbed" here;
\* an assignment without the copy would name the caller's object.
same_object(ref) == ref
deepcopy(ref) == "perturbed"

\* Lines 97-99: the caller's mapping and the local one after make_perturbed.
\* Line 98 writes through the reference line 97 produced; apply_constraints
\* (line 99) reads its argument and fills a mapping of its own (lines 75-92).
objects_after_make_perturbed(c, supplement_name, delta) ==
    LET objects == [center |-> c, perturbed |-> c]
        written == deepcopy("center")
    IN [objects EXCEPT ![written][supplement_name] = @ + delta]

\* Lines 149-151: the caller's center after the make_perturbed calls of the
\* perturbations in `todo`; the rest of generate_transfer_array reads it.
RECURSIVE center_after(_, _, _)
center_after(c, delta, todo) ==
    IF todo = <<>> THEN c
    ELSE center_after(
             objects_after_make_perturbed(c, Head(todo)[3], delta).center,
             delta, Tail(todo))

\* Lines 136, 139, 154, 159: a transfer is appended only for a positive volume.
emits_nonnegative(volume) == volume >= 0
emits(volume) == volume > 0

\* Lines 138-140 and 158-162: one transfer per supplement with a positive volume.
RECURSIVE supplement_transfers(_, _, _, _)
supplement_transfers(comp, names, row, col) ==
    IF names = <<>> THEN <<>>
    ELSE (IF emits(comp[Head(names)])
          THEN << <<REAGENT_WELLS[Head(names)], well(row, col), comp[Head(names)]>> >>
          ELSE <<>>)
         \o supplement_transfers(comp, Tail(names), row, col)

\* Lines 136-140 and 154-162: the filler transfer, then the supplements.
row_transfers(comp, novel_bio, row, col) ==
    (IF emits(novel_bio)
     THEN << <<REAGENT_WELLS["Novel_Bio"], well(row, col), novel_bio>> >>
     ELSE <<>>)
    \o supplement_transfers(comp, SUPPLEMENT_NAMES, row, col)

\* Line 132: row A, the control.
control_row(col) ==
    << <<REAGENT_WELLS["Novel_Bio"], well("A", col), WELL_VOLUME_UL>> >>

\* Lines 135-140: row B, the center as given.
center_row_full_filler(c, col) == row_transfers(c, WELL_VOLUME_UL, "B", col)
center_row(c, col) ==
    row_transfers(c, compute_novel_bio(c, WELL_VOLUME_UL), "B", col)

\* Lines 143-147.
perturbation_rows ==
    << <<"C", "D", "Glucose">>, <<"E", "F", "NaCl">>, <<"G", "H", "MgSO4">> >>

\* Line 151: the filler of the perturbed composition.
perturbed_filler_stale(c, perturbed) == compute_novel_bio(c, WELL_VOLUME_UL)
perturbed_filler(c, perturbed) == compute_novel_bio(perturbed, WELL_VOLUME_UL)

\* Lines 149-162: both replicate rows of every perturbation.
RECURSIVE perturbation_transfers(_, _, _, _)
perturbation_transfers(c, col, delta, todo) ==
    IF todo = <<>> THEN <<>>
    ELSE LET row1 == Head(todo)[1]
             row2 == Head(todo)[2]
             perturbed == make_perturbed(c, Head(todo)[3], delta)
             novel_bio_pert == perturbed_filler(c, perturbed)
         IN row_transfers(perturbed, novel_bio_pert, row1, col)
            \o row_transfers(perturbed, novel_bio_pert, row2, col)
            \o perturbation_transfers(c, col, delta, Tail(todo))

\* Lines 166-171.
source_order ==
    <<REAGENT_WELLS["Novel_Bio"], REAGENT_WELLS["MgSO4"],
      REAGENT_WELLS["NaCl"], REAGENT_WELLS["Glucose"]>>

\* Lines 172-173: order_map.get(t[0], 99).
order_key(t) ==
    IF \E i \in 1..Len(source_order) : source_order[i] = source_of(t)
    THEN (CHOOSE i \in 1..Len(source_order) : source_order[i] = source_of(t)) - 1
    ELSE 99

\* The transfers of `ts` whose key is `k`, in their order in `ts`.
with_key(ts, k) == SelectSeq(ts, LAMBDA t : order_key(t) = k)

\* Line 173: list.sort is stable, so the sorted list is, key by key in
\* increasing order, the transfers of that key in their original order.
RECURSIVE sorted_from(_, _)
sorted_from(ts, k) ==
    IF k >= Len(source_order) THEN with_key(ts, 99)
    ELSE with_key(ts, k) \o sorted_from(ts, k + 1)

unsorted(ts) == ts
sort_by_source(ts) == sorted_from(ts, 0)

\* Lines 107-175.
generate_transfer_array(c, col, delta) ==
    sort_by_source(
        control_row(col)
        \o center_row(c, col)
        \o perturbation_transfers(c, col, delta, perturbation_rows))

----------------------------------------------------------------------------
(* generate_transfer_array applied to bounded inputs *)

\* basic_agent.py lines 81-82: experiments use columns 2..12.
FIRST_COLUMN == 2
LAST_COLUMN == 12

\* Center values: a negative one, 0, min and max, the grid, and one above
\* the well volume.
CenterVals ==
    {0 - GridStep, 0, MIN_SUPPLEMENT_UL, MAX_SUPPLEMENT_UL, WELL_VOLUME_UL + GridStep}
    \cup {GridStep * i : i \in 1..MaxGrid}

GenInit ==
    /\ NoRun
    /\ mode = "gen"
    /\ pc = "start"
    /\ solved \in BOOLEAN
    /\ \E p \in [Names -> CenterVals] :
          center = IF solved THEN apply_constraints(as_proposed(p), DefaultCfg) ELSE p
    /\ column_index \in FIRST_COLUMN..LAST_COLUMN
    /\ transfers = <<>>
    /\ cfg = DefaultCfg /\ supplements = None /\ result = None
    /\ pass = 1 /\ first = None
    /\ loop_count = 0
    /\ transfer_array = <<>> /\ original_array = <<>>
    /\ reuse_source_wells = NoReuseArg /\ tips = None /\ first_tips = None
    /\ parsed = None /\ adjustments = None /\ new_center = None /\ history = <<>>

\* One call of generate_transfer_array, as basic_agent.py lines 97-99 make it.
Generate ==
    /\ mode = "gen" /\ pc = "start"
    /\ transfers' = generate_transfer_array(center, column_index, DELTA_UL)
    /\ center' = center_after(center, DELTA_UL, perturbation_rows)
    /\ pc' = "done"
    /\ UNCHANGED <<mode, solved, column_index, solver_vars, tip_vars, grad_vars, run_vars>>

GenNext == Generate

GenSpec == GenInit /\ [][GenNext]_vars

----------------------------------------------------------------------------
(* Tip consumption, src/monomer/transfers.py *)

\* Lines 195 and 197: the largest volumes of the p50 and the p200 classes.
P50_MAX_UL == 50
P200_MAX_UL == 200

Pipettes == {"p50", "p200", "p1000"}

\* Lines 195-200.
pipette_strict(volume) ==
    IF volume < P50_MAX_UL THEN "p50"
    ELSE IF volume < P200_MAX_UL THEN "p200"
    ELSE "p1000"
pipette(volume) ==
    IF volume <= P50_MAX_UL THEN "p50"
    ELSE IF volume <= P200_MAX_UL THEN "p200"
    ELSE "p1000"

\* Lines 187-189: None stands for the default reuse list.
reuse_set_of(reuse) == IF reuse.is_none THEN REUSE_TIP_SOURCE_WELLS ELSE reuse.wells

\* Lines 194-205: the loop over the transfers, with its two accumulators.
RECURSIVE tip_loop(_, _, _, _)
tip_loop(ts, reuse_set, reuse_by_pipette, single_counts) ==
    IF ts = <<>> THEN [reuse |-> reuse_by_pipette, single |-> single_counts]
    ELSE LET pip == pipette(volume_of(Head(ts)))
         IN IF source_of(Head(ts)) \in reuse_set
            THEN tip_loop(Tail(ts), reuse_set,
                          [reuse_by_pipette EXCEPT ![pip] = @ \cup {source_of(Head(ts))}],
                          single_counts)
            ELSE tip_loop(Tail(ts), reuse_set, reuse_by_pipette,
                          [single_counts EXCEPT ![pip] = @ + 1])

\* A variant that takes a tip whenever the source or the class of a reusable
\* transfer differs from the transfer before it.
RECURSIVE tip_changes(_, _, _)
tip_changes(ts, reuse_set, last) ==
    IF ts = <<>> THEN [p \in Pipettes |-> 0]
    ELSE LET pip == pipette(volume_of(Head(ts)))
             here == <<source_of(Head(ts)), pip>>
             rest == tip_changes(Tail(ts), reuse_set, here)
         IN IF source_of(Head(ts)) \in reuse_set /\ here = last
            THEN rest
            ELSE [rest EXCEPT ![pip] = @ + 1]

compute_tip_consumption_by_runs(ts, reuse) ==
    tip_changes(ts, reuse_set_of(reuse), <<>>)

\* Lines 178-211.
compute_tip_consumption(ts, reuse) ==
    LET acc == tip_loop(ts, reuse_set_of(reuse),
                        [p \in Pipettes |-> {}], [p \in Pipettes |-> 0])
    IN [p \in Pipettes |-> Cardinality(acc.reuse[p]) + acc.single[p]]

----------------------------------------------------------------------------
(* compute_tip_consumption applied to bounded lists and to their reorderings *)

MaxTransfers == 3

TipSources == {REAGENT_WELLS["Novel_Bio"], REAGENT_WELLS["Glucose"]}

\* The volumes on both sides of each class boundary.
TipVolumes == {P50_MAX_UL, P50_MAX_UL + 1, P200_MAX_UL, P200_MAX_UL + 1}

TipTransfers == TipSources \X {well("B", FIRST_COLUMN)} \X TipVolumes

ReuseChoices == {NoReuseArg, ReuseArg({}), ReuseArg(TipSources)}

TipInit ==
    /\ NoRun
    /\ mode = "tips"
    /\ pc = "ready"
    /\ \E n \in 0..MaxTransfers : transfer_array \in [1..n -> TipTransfers]
    /\ original_array = transfer_array
    /\ reuse_source_wells \in ReuseChoices
    /\ tips = None
    /\ first_tips = None
    /\ cfg = DefaultCfg /\ supplements = None /\ result = None
    /\ pass = 1 /\ first = None
    /\ loop_count = 0
    /\ center = None /\ solved = FALSE /\ column_index = 0 /\ transfers = <<>>
    /\ parsed = None /\ adjustments = None /\ new_center = None /\ history = <<>>

\* One call of compute_tip_consumption.
Estimate ==
    /\ mode = "tips" /\ pc = "ready"
    /\ tips' = compute_tip_consumption(transfer_array, reuse_source_wells)
    /\ first_tips' = IF pass = 1 THEN tips' ELSE first_tips
    /\ pass' = 2
    /\ pc' = "estimated"
    /\ UNCHANGED <<mode, transfer_array, original_array, reuse_source_wells,
                   cfg, supplements, result, first, loop_count, gen_vars, grad_vars,
                   run_vars>>

\* The caller exchanges two neighbouring transfers of the list.
Reorder ==
    /\ mode = "tips" /\ pc = "estimated"
    /\ \E i \in 1..(Len(transfer_array) - 1) :
          /\ transfer_array[i] # transfer_array[i + 1]
          /\ transfer_array' =
                 [transfer_array EXCEPT ![i] = transfer_array[i + 1],
                                        ![i + 1] = transfer_array[i]]
    /\ pc' = "ready"
    /\ UNCHANGED <<mode, original_array, reuse_source_wells, tips, first_tips,
                   solver_vars, gen_vars, grad_vars, run_vars>>

TipNext == Estimate \/ Reorder

TipSpec == TipInit /\ [][TipNext]_vars

----------------------------------------------------------------------------
(* Gradient update, src/track-2a-closed-loop/examples/basic_agent.py *)

LEARNING_RATE == 5

\* Line 69: the starting composition.
START_COMPOSITION == [n \in Names |->
    CASE n = "Glucose" -> 20 [] n = "NaCl" -> 10 [] OTHER -> 15]

\* int(x) for x = n/d, d > 0: Python truncates toward zero.
floor_int(n, d) == n \div d
python_int(n, d) == IF n >= 0 THEN n \div d ELSE 0 - ((0 - n) \div d)

\* Lines 160-161: (r1 + r2) / 2 - center_od.  The responses are counts of
\* halves, so the gradient is this count of quarters.
gradient_quarters_reversed(r1, r2, center_od) == 2 * center_od - (r1 + r2)
gradient_quarters(r1, r2, center_od) == r1 + r2 - 2 * center_od

\* Line 162: int(LEARNING_RATE * gradient).
adjustment(r1, r2, center_od) ==
    python_int(LEARNING_RATE * gradient_quarters(r1, r2, center_od), 4)

\* Lines 158-162, for every supplement.
adjustments_of(p) ==
    [n \in Names |->
        adjustment(p.perturbed_ods[n][1], p.perturbed_ods[n][2], p.center_od)]

\* Lines 157-163: the raw new center.
new_center_of(c, p) == [n \in Names |-> c[n] + adjustments_of(p)[n]]

----------------------------------------------------------------------------
(* The update step applied to bounded responses *)

\* Responses (growth deltas) in halves: 0..MaxOd.
MaxOd == 2

OdVals == 0..MaxOd

ParsedResults ==
    [control_od : {0}, center_od : OdVals,
     perturbed_ods : [Names -> OdVals \X OdVals]]

\* Centers the loop can hold when an update starts: the start, the empty
\* composition, and one with a factor at its maximum.
GradCenters ==
    {apply_constraints(as_proposed(START_COMPOSITION), DefaultCfg),
     [n \in Names |-> 0],
     [n \in Names |-> IF n = "Glucose" THEN MAX_SUPPLEMENT_UL ELSE 0]}

\* The state at line 155 of the first iteration: the responses are parsed and
\* the iteration's record is appended.
GradInit ==
    /\ NoRun
    /\ mode = "update"
    /\ pc = "observed"
    /\ center \in GradCenters
    /\ parsed \in ParsedResults
    /\ history = << [iteration |-> 1, column |-> FIRST_COLUMN,
                     center |-> center, parsed |-> parsed] >>
    /\ adjustments = None
    /\ new_center = None
    /\ cfg = DefaultCfg /\ supplements = None /\ result = None
    /\ pass = 1 /\ first = None
    /\ loop_count = 0
    /\ solved = TRUE /\ column_index = FIRST_COLUMN /\ transfers = <<>>
    /\ transfer_array = <<>> /\ original_array = <<>>
    /\ reuse_source_wells = NoReuseArg /\ tips = None /\ first_tips = None

\* Lines 157-169: the gradient update.
Update ==
    /\ mode = "update" /\ pc = "observed"
    /\ adjustments' = adjustments_of(parsed)
    /\ new_center' = new_center_of(center, parsed)
    /\ center' = apply_constraints(as_proposed(new_center_of(center, parsed)), DefaultCfg)
    /\ pc' = "updated"
    /\ UNCHANGED <<mode, parsed, history, solved, column_index, transfers,
                   solver_vars, tip_vars, run_vars>>

GradNext == Update

GradSpec == GradInit /\ [][GradNext]_vars

----------------------------------------------------------------------------
(* run_agent of basic_agent.py and starter_agent.py, one step per phase *)

PLATE_BARCODE == "GD-R1-20260314"
DEFINITION_ID == "def_id"
BASE_MEDIA_WELL == "D1"
DEFAULT_ITERATIONS == 5

\* The terminal statuses poll_workflow_completion returns on.
TERMINAL_STATUSES == {"completed", "failed", "cancelled", "canceled"}

\* basic_agent.py line 82, starter_agent.py line 160: the plate-full check.
plate_full_one_late(col) == col > LAST_COLUMN + 1
plate_full(col) == col > LAST_COLUMN

\* basic_agent.py line 91, starter_agent.py line 164: one full column.
column_wells(col) == [i \in 1..Len(ROWS) |-> well(ROWS[i], col)]

\* basic_agent.py line 94, starter_agent.py line 165.
only_this_column(m, d) == d
extend_monitoring(m, d) == m \o d

\* basic_agent.py line 87: ROWS[iteration - 1] exists (Python raises
\* IndexError otherwise; iteration >= 1, so the index is never negative).
has_seed_row(i) == i - 1 < Len(ROWS)

\* basic_agent.py lines 87-88.  The empty string is the empty sequence here.
seed_well_in_own_column(i) == well(ROWS[i], i + 1)
seed_well_of(i) == well(ROWS[i], 1)
next_seed_well_of(i) == IF i < Len(ROWS) THEN well(ROWS[i + 1], 1) ELSE <<>>

\* starter_agent.py lines 124-130: the default strategy, pure base media.
design_next_iteration(i, col, h) ==
    [k \in 1..Len(ROWS) |->
        [src_plate |-> "reagent", src_well |-> BASE_MEDIA_WELL,
         dst_plate |-> "experiment", dst_well |-> column_wells(col)[k],
         volume |-> WELL_VOLUME_UL, new_tip |-> "once", blow_out |-> TRUE]]

\* json.dumps of a list of wells or transfers: the text determines the value,
\* so the text is represented by the value it encodes, marked as text.
json_dumps(x) == [json |-> x]

\* basic_agent.py lines 110-116, starter_agent.py lines 177-182.
basic_extra_inputs(ts, dests, monitoring, seed, next_seed) ==
    [transfer_array |-> json_dumps(ts), dest_wells |-> json_dumps(dests),
     monitoring_wells |-> json_dumps(monitoring),
     seed_well |-> seed, next_seed_well |-> next_seed]

starter_extra_inputs(ts, monitoring) ==
    [transfer_array |-> json_dumps(ts),
     monitoring_wells |-> json_dumps(monitoring),
     reagent_name |-> "reagent_name",
     cell_culture_stock_plate_barcode |-> "cell_stock_barcode"]

\* instantiate_workflow with the signature the agents call and the template's
\* docstring documents: the extra inputs are sent next to the plate barcode.
documented_instantiate_request(definition_id, plate_barcode, extra, reason) ==
    [definition_id |-> definition_id,
     inputs |-> [plate_barcode |-> plate_barcode] @@ extra,
     reason |-> reason]

\* basic_agent.py line 168.
next_center_raw(c, p) == new_center_of(c, p)
next_center(c, p) ==
    apply_constraints(as_proposed(new_center_of(c, p)), DefaultCfg)

\* The phase that follows a phase of the loop body.
phase_after_no_wait(a, phase) ==
    CASE phase = "design" -> "submit"
      [] phase = "submit" -> "observe"
      [] phase = "wait" -> "observe"
      [] phase = "observe" -> IF a = "basic" THEN "update" ELSE "head"
      [] OTHER -> "head"
phase_after(a, phase) ==
    CASE phase = "design" -> "submit"
      [] phase = "submit" -> "wait"
      [] phase = "wait" -> "observe"
      [] phase = "observe" -> IF a = "basic" THEN "update" ELSE "head"
      [] OTHER -> "head"

\* Bounds of the runs explored.
MaxRequested == 12
LastFailingIteration == 1
RiseOd == 14
FallOd == 4
StarterOd == 1

Requested == {0, 1, DEFAULT_ITERATIONS, Len(ROWS) + 1, MaxRequested}

\* Parsed responses (in halves) an iteration of the basic agent may observe:
\* every perturbation grows better than the center, or none grows at all.
Rising ==
    [control_od |-> 0, center_od |-> 0,
     perturbed_ods |-> [n \in Names |-> <<RiseOd, RiseOd>>]]
Falling ==
    [control_od |-> 0, center_od |-> FallOd,
     perturbed_ods |-> [n \in Names |-> <<0, 0>>]]
RunResponses == {Rising, Falling}

\* The growth delta (in halves) the starter agent reads in every well; its
\* strategy does not look at it.
StarterOds == {StarterOd}

AgentInit ==
    /\ NoPoll
    /\ mode = "agent"
    /\ pc = "register"
    /\ agent \in {"basic", "starter"}
    /\ helpers \in {"src", "documented"}
    /\ n_iterations \in Requested
    /\ iteration = 0
    /\ dest_wells = <<>> /\ monitoring_wells = <<>>
    /\ seed_well = <<>> /\ next_seed_well = <<>>
    /\ uuid = 0 /\ od = None /\ submissions = <<>> /\ polled = <<>>
    /\ outcomes = <<>> /\ log = <<>> /\ persisted = NoFile /\ error = ""
    /\ extra_inputs = NoExtraInputs
    /\ center = None /\ solved = TRUE /\ column_index = 0 /\ transfers = <<>>
    /\ parsed = None /\ adjustments = None /\ new_center = None /\ history = <<>>
    /\ cfg = DefaultCfg /\ supplements = None /\ result = None
    /\ pass = 1 /\ first = None
    /\ loop_count = 0
    /\ transfer_array = <<>> /\ original_array = <<>>
    /\ reuse_source_wells = NoReuseArg /\ tips = None /\ first_tips = None

\* basic_agent.py lines 61-65, starter_agent.py lines 145-149, against
\* register_workflow of src/monomer/workflows.py: the call passes `name`,
\* which that signature does not accept, and omits `iteration`.
RegisterRaises ==
    /\ mode = "agent" /\ pc = "register"
    /\ helpers = "src"
    /\ pc' = "raised"
    /\ error' = "TypeError"
    /\ UNCHANGED <<mode, solver_vars, gen_vars, tip_vars, grad_vars, agent, helpers,
                   n_iterations, iteration, dest_wells, monitoring_wells, seed_well,
                   next_seed_well, uuid, od, submissions, polled, outcomes, log,
                   persisted, extra_inputs, now, deadline, poll_interval, events,
                   instance,
                   fetch_vars, mcp_vars>>

\* basic_agent.py lines 61-76, starter_agent.py lines 145-155, against helpers
\* with the documented signatures: registration, the starting center and the
\* first value of the loop variable.
Register ==
    /\ mode = "agent" /\ pc = "register"
    /\ helpers = "documented"
    /\ center' = IF agent = "basic"
                 THEN apply_constraints(as_proposed(START_COMPOSITION), DefaultCfg)
                 ELSE center
    /\ iteration' = 1
    /\ pc' = "head"
    /\ UNCHANGED <<mode, solved, column_index, transfers, solver_vars, tip_vars,
                   grad_vars, agent, helpers, n_iterations, dest_wells,
                   monitoring_wells, seed_well, next_seed_well, uuid, od,
                   submissions, polled, outcomes, log, persisted, error,
                   extra_inputs, now, deadline, poll_interval, events, instance,
                   fetch_vars, mcp_vars>>

\* basic_agent.py lines 76-84, starter_agent.py lines 155-162: the range is
\* exhausted, or the column is assigned and the plate-full check made.
LoopHead ==
    /\ mode = "agent" /\ pc = "head"
    /\ IF iteration > n_iterations
       THEN /\ pc' = "finish"
            /\ UNCHANGED column_index
       ELSE /\ column_index' = iteration + 1
            /\ pc' = IF plate_full(iteration + 1) THEN "finish" ELSE "design"
    /\ UNCHANGED <<mode, center, solved, transfers, solver_vars, tip_vars,
                   grad_vars, run_vars>>

\* What no step of the loop body changes.
run_fixed == <<mode, solved, solver_vars, tip_vars, agent, helpers, n_iterations,
               extra_inputs, now, deadline, poll_interval, events, instance,
               fetch_vars, mcp_vars>>

\* basic_agent.py lines 86-103.
BasicDesign ==
    /\ mode = "agent" /\ pc = "design" /\ agent = "basic"
    /\ has_seed_row(iteration)
    /\ seed_well' = seed_well_of(iteration)
    /\ next_seed_well' = next_seed_well_of(iteration)
    /\ dest_wells' = column_wells(column_index)
    /\ monitoring_wells' = extend_monitoring(monitoring_wells, column_wells(column_index))
    /\ transfers' = generate_transfer_array(center, column_index, DELTA_UL)
    /\ log' = Append(log, <<"design", iteration>>)
    /\ pc' = phase_after(agent, "design")
    /\ UNCHANGED <<run_fixed, center, column_index, grad_vars, iteration, uuid, od,
                   submissions, polled, outcomes, persisted, error>>

\* basic_agent.py line 87 when ROWS has no entry for the iteration.
BasicDesignRaises ==
    /\ mode = "agent" /\ pc = "design" /\ agent = "basic"
    /\ ~has_seed_row(iteration)
    /\ pc' = "raised"
    /\ error' = "IndexError"
    /\ UNCHANGED <<run_fixed, center, column_index, transfers, grad_vars, iteration,
                   dest_wells, monitoring_wells, seed_well, next_seed_well, uuid,
                   od, submissions, polled, outcomes, log, persisted>>

\* starter_agent.py lines 164-170.
StarterDesign ==
    /\ mode = "agent" /\ pc = "design" /\ agent = "starter"
    /\ dest_wells' = column_wells(column_index)
    /\ monitoring_wells' = extend_monitoring(monitoring_wells, column_wells(column_index))
    /\ transfers' = design_next_iteration(iteration, column_index, history)
    /\ log' = Append(log, <<"design", iteration>>)
    /\ pc' = phase_after(agent, "design")
    /\ UNCHANGED <<run_fixed, center, column_index, grad_vars, iteration, seed_well,
                   next_seed_well, uuid, od, submissions, polled, outcomes,
                   persisted, error>>

\* basic_agent.py lines 106-122, starter_agent.py lines 173-185: the request
\* reaches the workcell, which creates the instance and returns its id.  The
\* record of the submission is tagged with the loop variables of the caller.
Submit ==
    /\ mode = "agent" /\ pc = "submit"
    /\ LET extra == IF agent = "basic"
                    THEN basic_extra_inputs(transfers, dest_wells, monitoring_wells,
                                            seed_well, next_seed_well)
                    ELSE starter_extra_inputs(transfers, monitoring_wells)
           request == documented_instantiate_request(
                          DEFINITION_ID, PLATE_BARCODE, extra,
                          <<iteration, n_iterations>>)
           id == Len(submissions) + 1
       IN /\ submissions' = Append(submissions,
                 [uuid |-> id, request |-> request,
                  iteration |-> iteration, column |-> column_index])
          /\ uuid' = id
    /\ log' = Append(log, <<"submit", iteration>>)
    /\ pc' = phase_after(agent, "submit")
    /\ UNCHANGED <<run_fixed, center, column_index, transfers, grad_vars, iteration,
                   dest_wells, monitoring_wells, seed_well, next_seed_well, od,
                   polled, outcomes, persisted, error>>

\* basic_agent.py lines 126-132, starter_agent.py lines 188-193:
\* poll_workflow_completion returns the instance once its status is terminal.
\* The status returned is logged (basic) or dropped (starter), never tested.
\* Executions later than LastFailingIteration complete or time out.
Wait ==
    /\ mode = "agent" /\ pc = "wait"
    /\ \E status \in TERMINAL_STATUSES :
          /\ status # "completed" => iteration <= LastFailingIteration
          /\ outcomes' = Append(outcomes, status)
    /\ polled' = Append(polled, uuid)
    /\ log' = Append(log, <<"wait", iteration>>)
    /\ pc' = phase_after(agent, "wait")
    /\ UNCHANGED <<run_fixed, center, column_index, transfers, grad_vars, iteration,
                   dest_wells, monitoring_wells, seed_well, next_seed_well, uuid,
                   od, submissions, persisted, error>>

\* poll_workflow_completion lines 192-194: the deadline passes first; the
\* TimeoutError is caught nowhere in run_agent.
WaitTimeout ==
    /\ mode = "agent" /\ pc = "wait"
    /\ outcomes' = Append(outcomes, "timeout")
    /\ polled' = Append(polled, uuid)
    /\ log' = Append(log, <<"wait", iteration>>)
    /\ pc' = "raised"
    /\ error' = "TimeoutError"
    /\ UNCHANGED <<run_fixed, center, column_index, transfers, grad_vars, iteration,
                   dest_wells, monitoring_wells, seed_well, next_seed_well, uuid,
                   od, submissions, persisted>>

\* basic_agent.py line 148, starter_agent.py line 203: history.append(record).
list_insert_first(records, record) == <<record>> \o records
list_append(records, record) == Append(records, record)

\* basic_agent.py lines 135-154: the readings are fetched and parsed and the
\* iteration's record is appended.
BasicObserve ==
    /\ mode = "agent" /\ pc = "observe" /\ agent = "basic"
    /\ \E p \in RunResponses :
          /\ parsed' = p
          /\ history' = list_append(history,
                 [iteration |-> iteration, column |-> column_index,
                  seed_well |-> seed_well, center |-> center, parsed |-> p])
    /\ log' = Append(log, <<"observe", iteration>>)
    /\ pc' = phase_after(agent, "observe")
    /\ UNCHANGED <<run_fixed, center, column_index, transfers, adjustments,
                   new_center, iteration, dest_wells, monitoring_wells, seed_well,
                   next_seed_well, uuid, od, submissions, polled, outcomes,
                   persisted, error>>

\* starter_agent.py lines 196-213: the deltas are computed, the record is
\* appended and the whole history is written to runs/history.json; then the
\* loop advances.
StarterObserve ==
    /\ mode = "agent" /\ pc = "observe" /\ agent = "starter"
    /\ \E v \in StarterOds :
          LET deltas == [w \in {dest_wells[k] : k \in 1..Len(dest_wells)} |-> v]
              record == [iteration |-> iteration, column_index |-> column_index,
                         transfers |-> transfers, od |-> deltas]
          IN /\ od' = deltas
             /\ history' = list_append(history, record)
             /\ persisted' = FileWith(list_append(history, record))
    /\ log' = Append(log, <<"observe", iteration>>)
    /\ iteration' = iteration + 1
    /\ pc' = phase_after(agent, "observe")
    /\ UNCHANGED <<run_fixed, center, column_index, transfers, parsed, adjustments,
                   new_center, dest_wells, monitoring_wells, seed_well,
                   next_seed_well, uuid, submissions, polled, outcomes, error>>

\* fetch_absorbance_results lines 74-75 and 87-91: no reading of the column
\* is found; the RuntimeError is caught nowhere in run_agent.
FetchRaises ==
    /\ mode = "agent" /\ pc = "observe"
    /\ pc' = "raised"
    /\ error' = "RuntimeError"
    /\ UNCHANGED <<run_fixed, center, column_index, transfers, grad_vars, iteration,
                   dest_wells, monitoring_wells, seed_well, next_seed_well, uuid,
                   od, submissions, polled, outcomes, log, persisted>>

\* basic_agent.py lines 157-169, then the loop advances.
UpdateCenter ==
    /\ mode = "agent" /\ pc = "update" /\ agent = "basic"
    /\ adjustments' = adjustments_of(parsed)
    /\ new_center' = new_center_of(center, parsed)
    /\ center' = next_center(center, parsed)
    /\ log' = Append(log, <<"update", iteration>>)
    /\ iteration' = iteration + 1
    /\ pc' = phase_after(agent, "update")
    /\ UNCHANGED <<run_fixed, column_index, transfers, parsed, history, dest_wells,
                   monitoring_wells, seed_well, next_seed_well, uuid, od,
                   submissions, polled, outcomes, persisted, error>>

\* basic_agent.py lines 171-180: the history is written and (center, history)
\* returned.  starter_agent.py line 215: the function returns None.
Finish ==
    /\ mode = "agent" /\ pc = "finish"
    /\ persisted' = IF agent = "basic" THEN FileWith(history) ELSE persisted
    /\ pc' = "returned"
    /\ UNCHANGED <<run_fixed, center, column_index, transfers, grad_vars, iteration,
                   dest_wells, monitoring_wells, seed_well, next_seed_well, uuid,
                   od, submissions, polled, outcomes, log, error>>

AgentNext ==
    \/ RegisterRaises \/ Register \/ LoopHead
    \/ BasicDesign \/ BasicDesignRaises \/ StarterDesign
    \/ Submit \/ Wait \/ WaitTimeout
    \/ BasicObserve \/ StarterObserve \/ FetchRaises
    \/ UpdateCenter \/ Finish

AgentSpec == AgentInit /\ [][AgentNext]_vars

----------------------------------------------------------------------------
(* Properties of apply_constraints *)

Returned == mode = "solver" /\ pc = "done"

\* Every configuration of the model satisfies the precondition of C1.
ConfigOk(c) == 1 <= c.min_ul /\ c.min_ul <= c.max_ul /\ c.delta >= 1

\* C1: under a configuration with 1 <= min_ul <= max_ul and delta >= 1, every
\* factor value returned by apply_constraints is 0 or lies in [min_ul, max_ul].
C1_FactorsInRange ==
    (Returned /\ ConfigOk(cfg)) =>
        \A n \in Names :
            result[n] = 0 \/ (cfg.min_ul <= result[n] /\ result[n] <= cfg.max_ul)

\* C2: the returned factors and the filler add up to the well volume, and the
\* filler is at least min_novel_bio unless every factor is 0.
C2_FillerFloor ==
    Returned =>
        /\ sum_values(result, SUPPLEMENT_NAMES)
             + compute_novel_bio(result, cfg.well_volume) = cfg.well_volume
        /\ \/ compute_novel_bio(result, cfg.well_volume) >= cfg.min_novel_bio
           \/ \A n \in Names : result[n] = 0

\* C2 witness: a call returned after the repair loop reduced something, the
\* filler is at the floor or above and some factor is still non-zero.
C2_Witness ==
    /\ Returned
    /\ result # clamp(supplements, cfg)
    /\ \E n \in Names : result[n] > 0
    /\ compute_novel_bio(result, cfg.well_volume) >= cfg.min_novel_bio

\* C3: apply_constraints applied to its own output returns that output.
C3_Idempotent ==
    (Returned /\ pass = 2) => result = first

----------------------------------------------------------------------------
(* Calls of apply_constraints and of generate_transfer_array side by side *)

EffectInit == PartialInit \/ GenInit

EffectNext == SolverNext \/ GenNext

EffectSpec == EffectInit /\ [][EffectNext]_vars

----------------------------------------------------------------------------
(* Properties of generate_transfer_array *)

Generated == mode = "gen" /\ pc = "done"

\* The sources, other than the filler's, that the fixed layout draws from.
SupplementWells == {REAGENT_WELLS[n] : n \in Names}

\* The total volume the list `ts` moves into `dest`.
RECURSIVE well_total(_, _)
well_total(ts, dest) ==
    IF ts = <<>> THEN 0
    ELSE (IF dest_of(Head(ts)) = dest THEN volume_of(Head(ts)) ELSE 0)
         + well_total(Tail(ts), dest)

\* The total volume the list `ts` draws from `source`.
RECURSIVE source_total(_, _)
source_total(ts, source) ==
    IF ts = <<>> THEN 0
    ELSE (IF source_of(Head(ts)) = source THEN volume_of(Head(ts)) ELSE 0)
         + source_total(Tail(ts), source)

Sources(ts) == {source_of(ts[i]) : i \in 1..Len(ts)}

\* C4: no entry of the returned list has a volume <= 0, whatever the center.
C4_PositiveVolumes ==
    Generated => \A i \in 1..Len(transfers) : volume_of(transfers[i]) > 0

\* C4 witness: a list was generated for a center that bypassed the solver, has
\* a zero factor and leaves no filler, the entries the guards drop.
C4_Witness ==
    /\ Generated
    /\ ~solved
    /\ \E n \in Names : center[n] = 0
    /\ compute_novel_bio(center, WELL_VOLUME_UL) <= 0

\* C5: for a center returned by apply_constraints with its defaults, the
\* volumes emitted into each of the 8 wells of the column add up to 180.
C5_WellTotals ==
    (Generated /\ solved) =>
        \A i \in 1..Len(ROWS) :
            well_total(transfers, well(ROWS[i], column_index)) = WELL_VOLUME_UL

\* C5 witness: a list was generated for a solver output whose filler sits at
\* the floor, so every perturbed row was repaired, and with a non-zero factor.
C5_Witness ==
    /\ Generated
    /\ solved
    /\ compute_novel_bio(center, WELL_VOLUME_UL) = MIN_NOVEL_BIO_UL
    /\ \E n \in Names : center[n] > 0

\* C6: the transfers of one source are contiguous in the returned list and the
\* filler source's group comes first.
C6_GroupedFillerFirst ==
    Generated =>
        /\ \A i, k \in 1..Len(transfers) :
               (i < k /\ source_of(transfers[i]) = source_of(transfers[k])) =>
                   \A j \in i..k : source_of(transfers[j]) = source_of(transfers[i])
        /\ source_of(transfers[1]) = REAGENT_WELLS["Novel_Bio"]

\* C6 witness: a generated list that draws from the filler and from all three
\* supplements, with the filler in more rows than the control.
C6_Witness ==
    /\ Generated
    /\ Sources(transfers) = SupplementWells \cup {REAGENT_WELLS["Novel_Bio"]}
    /\ compute_novel_bio(center, WELL_VOLUME_UL) > 0

\* C7 as stated: the supplement source groups appear in order of decreasing
\* total volume (read here on the centers apply_constraints returns, the ones
\* the agent passes in).
C7_DecreasingTotals ==
    (Generated /\ solved) =>
        \A i, j \in 1..Len(transfers) :
            (/\ i < j
             /\ source_of(transfers[i]) \in SupplementWells
             /\ source_of(transfers[j]) \in SupplementWells) =>
                source_total(transfers, source_of(transfers[i]))
                    >= source_total(transfers, source_of(transfers[j]))

\* The place of a supplement source in the emitted list: MgSO4, NaCl, Glucose.
FixedPlace(source) ==
    CASE source = "C1" -> 1
      [] source = "B1" -> 2
      [] source = "A1" -> 3
      [] OTHER -> 0

\* What the sort does instead of the order C7 states: the supplement source
\* groups appear in the fixed order MgSO4 (C1), NaCl (B1), Glucose (A1),
\* whatever their total volumes.
FixedSourceOrder ==
    Generated =>
        \A i, j \in 1..Len(transfers) :
            (/\ i < j
             /\ source_of(transfers[i]) \in SupplementWells
             /\ source_of(transfers[j]) \in SupplementWells) =>
                FixedPlace(source_of(transfers[i])) <= FixedPlace(source_of(transfers[j]))

----------------------------------------------------------------------------
(* Properties of compute_tip_consumption *)

Estimated == mode = "tips" /\ pc = "estimated"

\* The tip class of a volume as the policy states it.
ClassOf(volume) ==
    CASE volume <= 50 -> "p50"
      [] volume >= 51 /\ volume <= 200 -> "p200"
      [] volume > 200 -> "p1000"

\* The reusable sources with at least one transfer of class p.
ReusedIn(ts, reuse_set, p) ==
    {w \in reuse_set :
        \E i \in 1..Len(ts) : source_of(ts[i]) = w /\ ClassOf(volume_of(ts[i])) = p}

\* The transfers of class p from a source that is not reusable.
FreshIn(ts, reuse_set, p) ==
    {i \in 1..Len(ts) :
        ClassOf(volume_of(ts[i])) = p /\ source_of(ts[i]) \notin reuse_set}

\* C8: per class, the estimate is the number of distinct reusable sources with
\* a transfer in the class plus the number of transfers of the class from
\* sources that are not reusable.
C8_TipPolicy ==
    Estimated =>
        \A p \in Pipettes :
            tips[p] = Cardinality(ReusedIn(transfer_array, reuse_set_of(reuse_source_wells), p))
                      + Cardinality(FreshIn(transfer_array, reuse_set_of(reuse_source_wells), p))

\* C8 witness: an estimate of a list in which a reusable source feeds two
\* transfers of one class and another source, not reusable, feeds one.
C8_Witness ==
    /\ Estimated
    /\ \E i, j, k \in 1..Len(transfer_array) :
          /\ i # j
          /\ source_of(transfer_array[i]) = source_of(transfer_array[j])
          /\ source_of(transfer_array[i]) \in reuse_set_of(reuse_source_wells)
          /\ pipette(volume_of(transfer_array[i])) = pipette(volume_of(transfer_array[j]))
          /\ volume_of(transfer_array[i]) # volume_of(transfer_array[j])
          /\ source_of(transfer_array[k]) \notin reuse_set_of(reuse_source_wells)

\* C9: the estimate of a reordered list equals the estimate of the original.
C9_OrderIndependent ==
    Estimated => tips = first_tips

\* C9 witness: an estimate of a list that was reordered, in which a reusable
\* source's transfers of one class are separated by another transfer.
C9_Witness ==
    /\ Estimated
    /\ transfer_array # original_array
    /\ Len(transfer_array) >= 3
    /\ source_of(transfer_array[1]) \in reuse_set_of(reuse_source_wells)
    /\ source_of(transfer_array[1]) = source_of(transfer_array[3])
    /\ pipette(volume_of(transfer_array[1])) = pipette(volume_of(transfer_array[3]))
    /\ source_of(transfer_array[2]) # source_of(transfer_array[1])

----------------------------------------------------------------------------
(* Properties of the gradient update *)

Updated == mode = "update" /\ pc = "updated"

\* The center the update started from, as the iteration's record holds it.
OldCenter == history[Len(history)].center

\* LEARNING_RATE * gradient of supplement n, in quarters.
ScaledGradient(n) ==
    LEARNING_RATE * (parsed.perturbed_ods[n][1] + parsed.perturbed_ods[n][2] - 2 * parsed.center_od)

\* k = floor(x / 4)
IsFloorOfQuarters(k, x) == 4 * k <= x /\ x < 4 * k + 4

\* k = ceiling(x / 4)
IsCeilingOfQuarters(k, x) == 4 * k - 4 < x /\ x <= 4 * k

\* C10 as stated: for every factor the adjustment is floor(learningRate *
\* (average replicate response - center response)), negative gradients
\* included, and the raw new value is the old value plus the adjustment.
C10_FloorAdjustment ==
    Updated =>
        \A n \in Names :
            /\ IsFloorOfQuarters(adjustments[n], ScaledGradient(n))
            /\ new_center[n] = OldCenter[n] + adjustments[n]

\* C10 amended: the adjustment is learningRate * gradient truncated toward
\* zero (its floor when the gradient is >= 0, its ceiling when it is < 0),
\* and the raw new value is the old value plus the adjustment.
C10_TruncatedAdjustment ==
    Updated =>
        \A n \in Names :
            /\ ScaledGradient(n) >= 0 =>
                   IsFloorOfQuarters(adjustments[n], ScaledGradient(n))
            /\ ScaledGradient(n) < 0 =>
                   IsCeilingOfQuarters(adjustments[n], ScaledGradient(n))
            /\ new_center[n] = OldCenter[n] + adjustments[n]

\* C10 witness: an update with a negative gradient whose product with the
\* learning rate is not an integer, and a positive one of the same kind.
C10_Witness ==
    /\ Updated
    /\ \E n \in Names : ScaledGradient(n) < 0 /\ ScaledGradient(n) % 4 # 0
    /\ \E n \in Names : ScaledGradient(n) > 0 /\ ScaledGradient(n) % 4 # 0

\* C11: if both replicate responses of a factor exceed the center response its
\* adjustment is >= 0, and if both are below it the adjustment is <= 0.
C11_GradientSign ==
    Updated =>
        \A n \in Names :
            LET r1 == parsed.perturbed_ods[n][1]
                r2 == parsed.perturbed_ods[n][2]
            IN /\ (r1 > parsed.center_od /\ r2 > parsed.center_od) => adjustments[n] >= 0
               /\ (r1 < parsed.center_od /\ r2 < parsed.center_od) => adjustments[n] <= 0

\* C11 witness: an update in which one factor has both replicates above the
\* center response and is raised, and another has both below and is lowered.
C11_Witness ==
    /\ Updated
    /\ \E n \in Names :
          /\ parsed.perturbed_ods[n][1] > parsed.center_od
          /\ parsed.perturbed_ods[n][2] > parsed.center_od
          /\ adjustments[n] > 0
    /\ \E n \in Names :
          /\ parsed.perturbed_ods[n][1] < parsed.center_od
          /\ parsed.perturbed_ods[n][2] < parsed.center_od
          /\ adjustments[n] < 0

----------------------------------------------------------------------------
(* Properties of run_agent *)

\* The basic agent holds a center: registration succeeded.
HoldsCenter ==
    mode = "agent" /\ agent = "basic" /\ pc # "register" /\ error # "TypeError"

ValidComposition(c) ==
    /\ \A n \in Names :
          /\ c[n] \in Int
          /\ c[n] = 0 \/ (MIN_SUPPLEMENT_UL <= c[n] /\ c[n] <= MAX_SUPPLEMENT_UL)
    /\ compute_novel_bio(c, WELL_VOLUME_UL) >= MIN_NOVEL_BIO_UL

InRun == mode = "agent"

\* The place of a phase in the loop body.
PhaseRank(phase) ==
    CASE phase = "design" -> 1
      [] phase = "submit" -> 2
      [] phase = "wait" -> 3
      [] phase = "observe" -> 4
      [] OTHER -> 5

\* The basic agent ends an iteration with its update; the starter agent has no
\* update step and ends an iteration with its observe step.
LastPhase == IF agent = "basic" THEN "update" ELSE "observe"

\* The submitted instances whose iteration has not been observed.
Unfinished ==
    {k \in 1..Len(submissions) :
        \A j \in 1..Len(log) : log[j] # <<"observe", submissions[k].iteration>>}

SubmittedTransfers(sub) == sub.request.inputs.transfer_array.json
SubmittedMonitoring(sub) == sub.request.inputs.monitoring_wells.json

\* The columns the transfers of a submission dispense into.
DestinationColumns(sub) ==
    LET ts == SubmittedTransfers(sub)
    IN {IF agent = "basic" THEN dest_of(ts[i])[2] ELSE ts[i].dst_well[2] :
           i \in 1..Len(ts)}

WellSet(ws) == {ws[i] : i \in 1..Len(ws)}

Ended == InRun /\ pc \in {"returned", "raised"}

\* Every instance polled so far completed.
AllCompleted == \A k \in 1..Len(outcomes) : outcomes[k] = "completed"

AVAILABLE_COLUMNS == LAST_COLUMN - FIRST_COLUMN + 1

\* C16: if every workflow completes (and its readings are found), a run of n
\* requested iterations returns normally with exactly min(n, 11) history
\* records.  Stated for helpers that accept the agents' calls.
C16_NormalTermination ==
    (Ended /\ helpers = "documented" /\ AllCompleted /\ error # "RuntimeError") =>
        /\ pc = "returned"
        /\ error = ""
        /\ Len(history) = Min(n_iterations, AVAILABLE_COLUMNS)

FAILURE_STATUSES == TERMINAL_STATUSES \ {"completed"}

Logged(phase, k) == \E j \in 1..Len(log) : log[j] = <<phase, k>>

\* C17: when the instance of iteration k ends failed or cancelled, no gradient
\* update is made from iteration k, no further iteration is submitted, and the
\* run does not end normally.
C17_FailureAborts ==
    InRun =>
        \A k \in 1..Len(outcomes) :
            outcomes[k] \in FAILURE_STATUSES =>
                /\ ~Logged("update", k)
                /\ Len(submissions) <= k
                /\ pc # "returned"

\* The history a caller can get hold of once the run is over: the value
\* returned (basic agent, normal return only), else runs/history.json.
AvailableHistory ==
    IF pc = "returned" /\ agent = "basic" THEN history ELSE persisted.records

\* C18: when the wait of iteration k times out the run ends with TimeoutError,
\* nothing further is submitted, and the history available afterwards holds
\* exactly the records of iterations 1..k-1.
C18_TimeoutKeepsHistory ==
    (InRun /\ Len(outcomes) > 0 /\ outcomes[Len(outcomes)] = "timeout") =>
        /\ pc = "raised" /\ error = "TimeoutError"
        /\ Len(submissions) = iteration
        /\ Len(AvailableHistory) = iteration - 1
        /\ \A j \in 1..(iteration - 1) : AvailableHistory[j].iteration = j

\* C19: after every completed iteration k, before iteration k+1 is designed or
\* submitted, runs/history.json holds exactly the records of iterations 1..k.
C19_CrashSafeHistory ==
    (InRun /\ pc \in {"head", "design", "submit"} /\ iteration > 1) =>
        /\ persisted.written
        /\ Len(persisted.records) = iteration - 1
        /\ \A j \in 1..Len(persisted.records) : persisted.records[j].iteration = j

----------------------------------------------------------------------------
(* instantiate_workflow of src/monomer/workflows.py, called for one iteration *)

\* The monitoring list of the iteration that fills column col: line 94 of
\* basic_agent.py applied once per column so far.
RECURSIVE monitoring_through(_)
monitoring_through(col) ==
    IF col < FIRST_COLUMN THEN <<>>
    ELSE extend_monitoring(monitoring_through(col - 1), column_wells(col))

\* workflows.py lines 129-134: the signature has no extra_inputs parameter.
accepts_call(extra) == ~extra.given

\* workflows.py lines 140-147: the arguments of the MCP tool call.
instantiate_request(definition_id, plate_barcode, reason) ==
    [definition_id |-> definition_id,
     inputs |-> [plate_barcode |-> plate_barcode],
     reason |-> reason]

\* A caller is about to submit the design of one iteration, either with the
\* keyword arguments the agents pass or with those of the signature alone.
SubmitInit ==
    /\ NoPoll
    /\ mode = "submit"
    /\ pc = "call"
    /\ agent \in {"basic", "starter"}
    /\ helpers = "src"
    /\ n_iterations = DEFAULT_ITERATIONS
    /\ column_index \in FIRST_COLUMN..LAST_COLUMN
    /\ iteration = column_index - 1
    /\ center \in IF agent = "basic" THEN GradCenters ELSE {None}
    /\ solved = TRUE
    /\ transfers = IF agent = "basic"
                   THEN generate_transfer_array(center, column_index, DELTA_UL)
                   ELSE design_next_iteration(iteration, column_index, <<>>)
    /\ dest_wells = column_wells(column_index)
    /\ monitoring_wells = monitoring_through(column_index)
    /\ seed_well = <<>> /\ next_seed_well = <<>>
    /\ extra_inputs \in
          {NoExtraInputs,
           ExtraInputs(IF agent = "basic"
                       THEN basic_extra_inputs(transfers, dest_wells,
                                               monitoring_wells, <<>>, <<>>)
                       ELSE starter_extra_inputs(transfers, monitoring_wells))}
    /\ uuid = 0 /\ od = None /\ submissions = <<>> /\ polled = <<>>
    /\ outcomes = <<>> /\ log = <<>> /\ persisted = NoFile /\ error = ""
    /\ parsed = None /\ adjustments = None /\ new_center = None /\ history = <<>>
    /\ cfg = DefaultCfg /\ supplements = None /\ result = None
    /\ pass = 1 /\ first = None
    /\ loop_count = 0
    /\ transfer_array = <<>> /\ original_array = <<>>
    /\ reuse_source_wells = NoReuseArg /\ tips = None /\ first_tips = None

submit_fixed ==
    <<mode, solver_vars, gen_vars, tip_vars, grad_vars, agent, helpers,
      n_iterations, iteration, dest_wells, monitoring_wells, seed_well,
      next_seed_well, od, outcomes, log, persisted, extra_inputs, now, deadline,
      poll_interval, events, instance,
      fetch_vars, mcp_vars>>

\* The call passes extra_inputs: Python raises TypeError before the body runs.
InstantiateRaises ==
    /\ mode = "submit" /\ pc = "call"
    /\ ~accepts_call(extra_inputs)
    /\ pc' = "raised"
    /\ error' = "TypeError"
    /\ UNCHANGED <<submit_fixed, submissions, uuid, polled>>

\* workflows.py lines 140-149: the tool call reaches the workcell, whose
\* result holds the id of the new instance, or none (0).
Instantiate ==
    /\ mode = "submit" /\ pc = "call"
    /\ accepts_call(extra_inputs)
    /\ \E id \in {0, Len(submissions) + 1} :
          /\ submissions' = Append(submissions,
                 [uuid |-> id,
                  request |-> instantiate_request(DEFINITION_ID, PLATE_BARCODE,
                                                  <<iteration, n_iterations>>),
                  iteration |-> iteration, column |-> column_index])
          /\ uuid' = id
    /\ pc' = "result"
    /\ UNCHANGED <<submit_fixed, polled, error>>

\* workflows.py lines 150-153.
NoUuidRaises ==
    /\ mode = "submit" /\ pc = "result"
    /\ uuid = 0
    /\ pc' = "raised"
    /\ error' = "RuntimeError"
    /\ UNCHANGED <<submit_fixed, submissions, uuid, polled>>

\* workflows.py line 154.
ReturnUuid ==
    /\ mode = "submit" /\ pc = "result"
    /\ uuid # 0
    /\ pc' = "returned"
    /\ UNCHANGED <<submit_fixed, submissions, uuid, polled, error>>

\* basic_agent.py lines 126-131: the caller polls the id it was given.
PollReturned ==
    /\ mode = "submit" /\ pc = "returned"
    /\ polled' = Append(polled, uuid)
    /\ pc' = "polling"
    /\ UNCHANGED <<submit_fixed, submissions, uuid, error>>

SubmitNext ==
    InstantiateRaises \/ Instantiate \/ NoUuidRaises \/ ReturnUuid \/ PollReturned

SubmitSpec == SubmitInit /\ [][SubmitNext]_vars

\* C20: every submission made through instantiate_workflow carries in its
\* inputs the plate barcode, the iteration's transfer list and the cumulative
\* monitoring wells, and the id it returns is the one polled afterwards.
C20_SubmissionContent ==
    mode = "submit" =>
        /\ \A k \in 1..Len(submissions) :
              LET inputs == submissions[k].request.inputs
              IN /\ inputs.plate_barcode = PLATE_BARCODE
                 /\ "transfer_array" \in DOMAIN inputs
                 /\ inputs.transfer_array = json_dumps(transfers)
                 /\ "monitoring_wells" \in DOMAIN inputs
                 /\ inputs.monitoring_wells = json_dumps(monitoring_wells)
        /\ \A k \in 1..Len(polled) : polled[k] = submissions[k].uuid

----------------------------------------------------------------------------
(* poll_workflow_completion of src/monomer/workflows.py, on a clock of ticks *)

\* Bounds: the timeout, the interval and the duration of a status request.
MaxTimeout == 3
MaxInterval == 2
MaxLatency == 2

\* workflows.py line 182: the statuses a response may carry; "unknown" is the
\* default of a response without a status.
STATUSES == {"running", "unknown"} \cup TERMINAL_STATUSES

\* workflows.py line 184.
is_terminal(status) == status \in TERMINAL_STATUSES

\* workflows.py line 178: the loop condition.
before_deadline_inclusive(t, d) == t <= d
before_deadline(t, d) == t < d

\* workflows.py lines 178 and 192: the statement after the loop is reached
\* when the loop condition fails.
deadline_passed_strictly(t, d) == t > d
deadline_passed(t, d) == ~before_deadline(t, d)

\* An event of a call: its kind, the time it happened, the status it carried.
event(kind, t, status) == <<kind, t, status>>

\* workflows.py lines 175-176: the call starts at tick 0.
PollInit ==
    /\ mode = "poll"
    /\ pc = "check"
    /\ now = 0
    /\ deadline \in 0..MaxTimeout
    /\ poll_interval \in 1..MaxInterval
    /\ events = <<>>
    /\ instance = None
    /\ NoFetch /\ NoMcp
    /\ agent = None /\ helpers = None /\ n_iterations = 0 /\ iteration = 0
    /\ dest_wells = <<>> /\ monitoring_wells = <<>>
    /\ seed_well = <<>> /\ next_seed_well = <<>>
    /\ uuid = 1 /\ od = None /\ submissions = <<>> /\ polled = <<>>
    /\ outcomes = <<>> /\ log = <<>> /\ persisted = NoFile /\ error = ""
    /\ extra_inputs = NoExtraInputs
    /\ center = None /\ solved = FALSE /\ column_index = 0 /\ transfers = <<>>
    /\ parsed = None /\ adjustments = None /\ new_center = None /\ history = <<>>
    /\ cfg = DefaultCfg /\ supplements = None /\ result = None
    /\ pass = 1 /\ first = None
    /\ loop_count = 0
    /\ transfer_array = <<>> /\ original_array = <<>>
    /\ reuse_source_wells = NoReuseArg /\ tips = None /\ first_tips = None

poll_fixed ==
    <<mode, solver_vars, gen_vars, tip_vars, grad_vars, agent, helpers,
      n_iterations, iteration, dest_wells, monitoring_wells, seed_well,
      next_seed_well, uuid, od, submissions, polled, outcomes, log, persisted,
      extra_inputs, deadline, poll_interval, fetch_vars, mcp_vars>>

\* workflows.py lines 178-181: the deadline is not reached, the status request
\* is sent.
PollRequest ==
    /\ mode = "poll" /\ pc = "check"
    /\ before_deadline(now, deadline)
    /\ events' = Append(events, event("request", now, ""))
    /\ pc' = "calling"
    /\ UNCHANGED <<poll_fixed, now, instance, error>>

\* workflows.py lines 178 and 192-194: the deadline is reached.
PollTimeout ==
    /\ mode = "poll" /\ pc = "check"
    /\ deadline_passed(now, deadline)
    /\ pc' = "raised"
    /\ error' = "TimeoutError"
    /\ UNCHANGED <<poll_fixed, now, events, instance>>

\* workflows.py lines 179-185: the response arrives after some ticks; a
\* terminal status returns the instance.
PollResponse ==
    /\ mode = "poll" /\ pc = "calling"
    /\ \E latency \in 0..MaxLatency, status \in STATUSES :
          /\ now' = now + latency
          /\ instance' = status
          /\ events' = Append(events, event("response", now + latency, status))
          /\ pc' = IF is_terminal(status) THEN "returned" ELSE "sleep"
    /\ UNCHANGED <<poll_fixed, error>>

\* mcp_client.py call_tool: the request fails and its exception propagates.
PollCallRaises ==
    /\ mode = "poll" /\ pc = "calling"
    /\ pc' = "raised"
    /\ error' = "RuntimeError"
    /\ UNCHANGED <<poll_fixed, now, events, instance>>

\* workflows.py lines 187-190: the callback, then the sleep of one interval.
PollSleep ==
    /\ mode = "poll" /\ pc = "sleep"
    /\ events' = Append(events, event("sleep", now, ""))
    /\ now' = now + poll_interval
    /\ pc' = "check"
    /\ UNCHANGED <<poll_fixed, instance, error>>

PollNext ==
    PollRequest \/ PollTimeout \/ PollResponse \/ PollCallRaises \/ PollSleep

PollSpec == PollInit /\ [][PollNext]_vars

\* The clock advances and every status request comes back: a step of the call
\* that can be taken is taken eventually.
PollLiveSpec == PollInit /\ [][PollNext]_vars /\ WF_vars(PollNext)

InPoll == mode = "poll"

\* The responses of the call that carried a terminal status.
TerminalResponses ==
    {i \in 1..Len(events) : events[i][1] = "response" /\ is_terminal(events[i][3])}

\* C21: poll_workflow_completion returns the instance of the first response
\* with a terminal status, raises TimeoutError only when the deadline is
\* reached without such a response, does nothing after a terminal response,
\* and sends no status request at or after the deadline.
C21_StopsAtTerminalOrDeadline ==
    InPoll =>
        /\ \A i \in TerminalResponses : i = Len(events)
        /\ pc = "returned" <=> TerminalResponses # {}
        /\ pc = "returned" => instance = events[Len(events)][3]
        /\ error = "TimeoutError" => (TerminalResponses = {} /\ now >= deadline)
        /\ (pc = "check" /\ TerminalResponses = {} /\ now >= deadline) =>
              ENABLED PollTimeout
        /\ \A i \in 1..Len(events) :
              events[i][1] = "request" => events[i][2] < deadline

\* C21 witnesses: a call returns on its second poll; a call times out after
\* polling without seeing a terminal status.
C21_Witness ==
    /\ InPoll /\ pc = "returned"
    /\ Len(events) = 5
    /\ events[2][3] = "running"
    /\ events[5][3] = "cancelled"

----------------------------------------------------------------------------
(* _validate and build_definition of workflow_definition_template.py *)

\* _MAX_TRANSFERS, the hard cap on the transfers of one iteration.
MAX_TRANSFERS == 30
PLATE_CAPACITY == 96

\* Bound: how far past the cap the validated lists go.
MaxOverCap == 1

\* json.loads of a text produced by json_dumps.
json_loads(text) == text.json

\* Line 178: the cap on the number of transfers.
within_cap_exclusive(n) == n < MAX_TRANSFERS
within_cap(n) == n <= MAX_TRANSFERS

\* Lines 191-192: the destination wells of the transfers not in dest_wells.
unlisted(ts, dests) ==
    {dest_of(ts[i]) : i \in 1..Len(ts)} \ {dests[i] : i \in 1..Len(dests)}

\* Lines 209-210: the volume check (volumes are numbers in this model, so the
\* isinstance test holds).
positive_volume(vol) == vol > 0

\* Lines 178-213: the first assertion that fails, "ok" if none does.
validate(ts, dests, monitoring, seed) ==
    CASE ~within_cap(Len(ts)) -> "too many transfers"
      [] Len(dests) = 0 -> "dest_wells is empty"
      [] Len(dests) > PLATE_CAPACITY -> "dest_wells exceeds plate capacity"
      [] unlisted(ts, dests) # {} -> "wells not in dest_wells"
      [] Len(monitoring) = 0 -> "monitoring_wells is empty"
      [] seed = <<>> -> "seed_well cannot be empty"
      [] \E i \in 1..Len(dests) : dests[i] = seed -> "seed_well in dest_wells"
      [] \E i \in 1..Len(ts) : ~positive_volume(volume_of(ts[i])) ->
             "volume must be positive"
      [] OTHER -> "ok"

\* The inputs of a call: a list of n transfers into the column, one of which
\* (the k-th) has the destination and the volume under test.
ValidatedVolumes == {-1, 0, 1, WELL_VOLUME_UL}
ValidatedLengths == 0..(MAX_TRANSFERS + MaxOverCap)
OtherColumn == FIRST_COLUMN + 1

transfers_with(n, k, dest, vol) ==
    [i \in 1..n |->
        IF i = k THEN <<REAGENT_WELLS["Glucose"], dest, vol>>
        ELSE <<REAGENT_WELLS["Novel_Bio"],
               well(ROWS[((i - 1) % Len(ROWS)) + 1], FIRST_COLUMN), 1>>]

\* build_definition is called with the JSON texts of one iteration.
ValidateInit ==
    /\ NoPoll
    /\ mode = "validate"
    /\ pc = "parse"
    /\ \E n \in ValidatedLengths, last \in BOOLEAN,
          dest \in {well("A", FIRST_COLUMN), well("A", OtherColumn)},
          vol \in ValidatedVolumes,
          dests \in {<<>>, column_wells(FIRST_COLUMN)},
          monitoring \in {<<>>, column_wells(FIRST_COLUMN)},
          seed \in {<<>>, well("A", 1), well("A", FIRST_COLUMN)} :
          extra_inputs = ExtraInputs(
              [transfer_array |->
                   json_dumps(transfers_with(n, IF last THEN n ELSE 1, dest, vol)),
               dest_wells |-> json_dumps(dests),
               monitoring_wells |-> json_dumps(monitoring),
               seed_well |-> seed,
               next_seed_well |-> <<>>])
    /\ transfers = <<>> /\ dest_wells = <<>> /\ monitoring_wells = <<>>
    /\ seed_well = <<>> /\ next_seed_well = <<>>
    /\ agent = None /\ helpers = None /\ n_iterations = 0 /\ iteration = 0
    /\ uuid = 0 /\ od = None /\ submissions = <<>> /\ polled = <<>>
    /\ outcomes = <<>> /\ log = <<>> /\ persisted = NoFile /\ error = ""
    /\ center = None /\ solved = FALSE /\ column_index = 0
    /\ parsed = None /\ adjustments = None /\ new_center = None /\ history = <<>>
    /\ cfg = DefaultCfg /\ supplements = None /\ result = None
    /\ pass = 1 /\ first = None
    /\ loop_count = 0
    /\ transfer_array = <<>> /\ original_array = <<>>
    /\ reuse_source_wells = NoReuseArg /\ tips = None /\ first_tips = None

validate_fixed ==
    <<mode, solver_vars, center, solved, column_index, tip_vars, grad_vars, agent,
      helpers, n_iterations, iteration, uuid, od, submissions, polled, outcomes,
      persisted, extra_inputs, now, deadline, poll_interval, events, instance,
      fetch_vars, mcp_vars>>

\* build_definition lines 269-272: the JSON inputs are parsed.
ParseInputs ==
    /\ mode = "validate" /\ pc = "parse"
    /\ transfers' = json_loads(extra_inputs.value.transfer_array)
    /\ dest_wells' = json_loads(extra_inputs.value.dest_wells)
    /\ monitoring_wells' = json_loads(extra_inputs.value.monitoring_wells)
    /\ seed_well' = extra_inputs.value.seed_well
    /\ next_seed_well' = extra_inputs.value.next_seed_well
    /\ pc' = "validate"
    /\ UNCHANGED <<validate_fixed, log, error>>

\* build_definition line 276 when an assertion of _validate fails: the
\* AssertionError leaves build_definition, no workflow is built.
ValidateRaises ==
    /\ mode = "validate" /\ pc = "validate"
    /\ validate(transfers, dest_wells, monitoring_wells, seed_well) # "ok"
    /\ log' = <<validate(transfers, dest_wells, monitoring_wells, seed_well)>>
    /\ error' = "AssertionError"
    /\ pc' = "raised"
    /\ UNCHANGED <<validate_fixed, transfers, dest_wells, monitoring_wells,
                   seed_well, next_seed_well>>

\* build_definition line 276 when _validate returns.
ValidateReturns ==
    /\ mode = "validate" /\ pc = "validate"
    /\ validate(transfers, dest_wells, monitoring_wells, seed_well) = "ok"
    /\ pc' = "build"
    /\ UNCHANGED <<validate_fixed, transfers, dest_wells, monitoring_wells,
                   seed_well, next_seed_well, log, error>>

\* build_definition from line 278 on: the workflow is built and returned.
BuildWorkflow ==
    /\ mode = "validate" /\ pc = "build"
    /\ pc' = "built"
    /\ UNCHANGED <<validate_fixed, transfers, dest_wells, monitoring_wells,
                   seed_well, next_seed_well, log, error>>

ValidateNext == ParseInputs \/ ValidateRaises \/ ValidateReturns \/ BuildWorkflow

ValidateSpec == ValidateInit /\ [][ValidateNext]_vars

\* _validate has been called: it raised, or build_definition went on.
Validated == mode = "validate" /\ pc \in {"raised", "build", "built"}

TooManyTransfers == Len(transfers) > MAX_TRANSFERS
UnlistedDestination ==
    \E i \in 1..Len(transfers) :
        \A j \in 1..Len(dest_wells) : dest_wells[j] # transfers[i][2]
NonPositiveVolume == \E i \in 1..Len(transfers) : transfers[i][3] <= 0

\* Every condition _validate asserts, spelled out.
PassesEveryCheck ==
    /\ ~TooManyTransfers /\ ~UnlistedDestination /\ ~NonPositiveVolume
    /\ Len(dest_wells) >= 1 /\ Len(dest_wells) <= PLATE_CAPACITY
    /\ Len(monitoring_wells) >= 1
    /\ seed_well # <<>>
    /\ \A j \in 1..Len(dest_wells) : dest_wells[j] # seed_well

----------------------------------------------------------------------------
(* The designs of basic_agent.py against _validate *)

\* basic_agent.py line 81: the iteration that fills column col.
iteration_of(col) == col - 1

\* _validate applied to the design of column column_index as the agent submits
\* it (basic_agent.py lines 86-99): the transfers, the column's wells, the
\* cumulative monitoring list and the iteration's seed well.
design_verdict ==
    validate(transfers, column_wells(column_index),
             monitoring_through(column_index),
             seed_well_of(iteration_of(column_index)))

----------------------------------------------------------------------------
(* Further properties of apply_constraints *)

\* The filler of the returned composition is below the floor: the repair
\* loop left through its break (lines 87-88).
Infeasible == Returned /\ needs_repair(result, cfg)

\* What a caller can observe besides the factor values: a key of the returned
\* mapping other than the factor names, or a log record.  Lines 58-92 build
\* the mapping from supplement_names alone and make no logging call.
WarningFlag == (DOMAIN result # Names) \/ log # <<>>

\* C24: when the filler cannot reach the floor with all factors at 0,
\* apply_constraints does not raise and returns the all-zero composition
\* together with a warning flag.
C24_InfeasibilityReported ==
    Infeasible =>
        /\ \A n \in Names : result[n] = 0
        /\ error = ""
        /\ WarningFlag

\* The mapping with every missing factor set to 0 and no other key.
with_missing_as_zero(m) == [n \in Names |-> IF n \in DOMAIN m THEN m[n] ELSE 0]

\* C25: for a mapping over any subset or superset of the factor names,
\* apply_constraints does not raise, and what it returns has exactly the
\* factor names as keys and equals what it returns for the same mapping with
\* the missing factors set to 0.
C25_MissingFactorIsZero ==
    /\ mode = "solver" => error = ""
    /\ (Returned /\ pass = 1) =>
          /\ DOMAIN result = Names
          /\ result = apply_constraints(with_missing_as_zero(supplements), cfg)

\* C25 witness: a call that gives NaCl and a key that is no factor, and
\* neither Glucose nor MgSO4, returns a composition with NaCl in it.
C25_Witness ==
    /\ Returned /\ pass = 1
    /\ DOMAIN supplements = {"NaCl", OtherKey}
    /\ result["NaCl"] > 0
    /\ result["Glucose"] = 0

\* A step from the loop to the loop: one iteration of the while loop.
LoopIteration == mode = "solver" /\ pc = "loop" /\ pc' = "loop"

\* C26: every iteration of the repair loop, taken while the filler is below
\* the floor, changes exactly one factor: the one of largest value, the
\* earliest of the factor order among ties, which goes down by delta or to 0;
\* the other factors keep their values and none goes up.
C26_RepairStepReducesLargest ==
    [][LoopIteration =>
          /\ compute_novel_bio(result, cfg.well_volume) < cfg.min_novel_bio
          /\ \E i \in 1..Len(SUPPLEMENT_NAMES) :
                LET f == SUPPLEMENT_NAMES[i]
                IN /\ \A n \in Names : result[n] <= result[f]
                   /\ \A j \in 1..(i - 1) : result[SUPPLEMENT_NAMES[j]] < result[f]
                   /\ result'[f] # result[f]
                   /\ result'[f] = Max(0, result[f] - cfg.delta)
                   /\ \A n \in Names \ {f} : result'[n] = result[n]
          /\ \A n \in Names : result'[n] <= result[n]]_vars

\* C26 witness: the loop has reduced a factor and stands before another
\* iteration with two factors tied for the largest value.
C26_Witness ==
    /\ mode = "solver" /\ pc = "loop" /\ pass = 1
    /\ result # clamp(supplements, cfg)
    /\ needs_repair(result, cfg)
    /\ result["NaCl"] = result["MgSO4"]
    /\ result["NaCl"] > result["Glucose"]

\* C27: for every proposed mapping and every configuration, whatever the
\* integer delta, the repair loop is left and the call returns, with the
\* filler at or above min_novel_bio or with every factor at 0.
C27_RepairTerminates ==
    <>(/\ mode = "solver" /\ pc = "done"
       /\ \/ ~needs_repair(result, cfg)
          \/ \A n \in Names : result[n] = 0)

\* C28: the mapping passed in is the same, keys and values, after every step
\* of a call of apply_constraints and after a call of
\* generate_transfer_array with the make_perturbed calls it makes.
C28_InputsUnchanged ==
    [][/\ (mode = "solver" /\ pc # "done") => supplements' = supplements
       /\ mode = "gen" => center' = center]_vars

\* C28 witness: a list was generated for a center whose Glucose stands at
\* max_ul, so that make_perturbed wrote a value above it into its copy and
\* apply_constraints capped it in the mapping it returned.
C28_Witness ==
    /\ Generated /\ solved
    /\ center["Glucose"] = MAX_SUPPLEMENT_UL
    /\ \E i \in 1..Len(transfers) :
          /\ dest_of(transfers[i]) = well("C", column_index)
          /\ source_of(transfers[i]) = REAGENT_WELLS["Glucose"]
          /\ volume_of(transfers[i]) = MAX_SUPPLEMENT_UL

----------------------------------------------------------------------------
(* The rows of a generated design *)

\* The entries of `ts` into well `dest`, and those drawn from `source`.
into(ts, dest) == SelectSeq(ts, LAMBDA t : dest_of(t) = dest)
from(ts, source) == SelectSeq(ts, LAMBDA t : source_of(t) = source)

\* A composition has no negative factor.
NonNegative(c) == \A n \in Names : c[n] >= 0

\* The entries `row` holds for composition `c`: one per non-zero factor, with
\* its value, one of the filler if it is positive, and nothing else.
HoldsComposition(row, c) ==
    LET filler == WELL_VOLUME_UL - (c["Glucose"] + c["NaCl"] + c["MgSO4"])
        fillers == from(row, REAGENT_WELLS["Novel_Bio"])
    IN /\ \A n \in Names :
             LET entries == from(row, REAGENT_WELLS[n])
             IN IF c[n] # 0
                THEN Len(entries) = 1 /\ volume_of(entries[1]) = c[n]
                ELSE Len(entries) = 0
       /\ IF filler > 0
          THEN Len(fillers) = 1 /\ volume_of(fillers[1]) = filler
          ELSE Len(fillers) = 0
       /\ \A i \in 1..Len(row) :
             source_of(row[i]) \in SupplementWells \cup {REAGENT_WELLS["Novel_Bio"]}

\* C29: row A of the column receives exactly one transfer, from the filler
\* source, of the full well volume; row B receives exactly one transfer per
\* non-zero factor of the center, with that value, plus exactly one filler
\* transfer of 180 - sum(center) if and only if that is > 0.
C29_ControlAndCenterRows ==
    (Generated /\ NonNegative(center)) =>
        /\ into(transfers, well("A", column_index))
              = << <<REAGENT_WELLS["Novel_Bio"], well("A", column_index),
                     WELL_VOLUME_UL>> >>
        /\ HoldsComposition(into(transfers, well("B", column_index)), center)

\* C29 witness: a design for a center with two factors at 90 and one at 0,
\* which leaves no filler: row B holds two transfers.
C29_Witness ==
    /\ Generated
    /\ center = [n \in Names |-> IF n = "MgSO4" THEN 0 ELSE MAX_SUPPLEMENT_UL]
    /\ Len(into(transfers, well("B", column_index))) = 2

\* The (source, volume) pairs of the entries of `row`.
SourceVolumes(row) == {<<source_of(row[i]), volume_of(row[i])>> : i \in 1..Len(row)}

\* The composition the two rows of factor f are to hold: apply_constraints of
\* the center with f increased by delta.
PerturbedComposition(f) ==
    apply_constraints(as_proposed([center EXCEPT ![f] = center[f] + DELTA_UL]),
                      DefaultCfg)

\* C30: for each factor f the two replicate rows of f receive the same set of
\* (source, volume) transfers, and each holds exactly the composition
\* apply_constraints(center with f increased by delta) with its filler, the
\* filler transfer being absent when that filler is 0.
C30_PerturbationRows ==
    Generated =>
        \A k \in 1..Len(perturbation_rows) :
            LET row1 == into(transfers, well(perturbation_rows[k][1], column_index))
                row2 == into(transfers, well(perturbation_rows[k][2], column_index))
                f == perturbation_rows[k][3]
            IN /\ SourceVolumes(row1) = SourceVolumes(row2)
               /\ Len(row1) = Len(row2)
               /\ HoldsComposition(row1, PerturbedComposition(f))
               /\ HoldsComposition(row2, PerturbedComposition(f))

\* C30 witness: a design for a solver output whose filler sits at the floor,
\* so the NaCl perturbation was repaired before its rows E and F were filled,
\* each with the filler and all three factors.
C30_Witness ==
    /\ Generated /\ solved
    /\ compute_novel_bio(center, WELL_VOLUME_UL) = MIN_NOVEL_BIO_UL
    /\ PerturbedComposition("NaCl") # [center EXCEPT !["NaCl"] = @ + DELTA_UL]
    /\ Len(into(transfers, well("E", column_index))) = Len(SUPPLEMENT_NAMES) + 1
    /\ Len(into(transfers, well("F", column_index))) = Len(SUPPLEMENT_NAMES) + 1

\* The composition the entries of `ts` put into well `dest`: for each factor
\* the volume drawn from its source well.
row_composition(ts, dest) ==
    [n \in Names |-> source_total(into(ts, dest), REAGENT_WELLS[n])]

\* The Composition invariants under the default configuration: every factor
\* is 0 or within [min_ul, max_ul], and the filler is at or above the floor.
IsComposition(c) ==
    /\ \A n \in Names :
          c[n] = 0 \/ (MIN_SUPPLEMENT_UL <= c[n] /\ c[n] <= MAX_SUPPLEMENT_UL)
    /\ compute_novel_bio(c, WELL_VOLUME_UL) >= MIN_NOVEL_BIO_UL

\* The center leaves less filler than the floor: it did not come from the
\* solver.
NotFillerFeasible(c) == compute_novel_bio(c, WELL_VOLUME_UL) < MIN_NOVEL_BIO_UL

\* C31: for a center that is not filler-feasible, what generate_transfer_array
\* puts into every row but the control, the center row B included, is a
\* solver output: factors in range and filler at or above the floor.
C31_DelegatesToSolver ==
    (Generated /\ NotFillerFeasible(center)) =>
        \A i \in 2..Len(ROWS) :
            IsComposition(row_composition(transfers, well(ROWS[i], column_index)))

----------------------------------------------------------------------------
(* Termination of poll_workflow_completion *)

\* C32: every call of poll_workflow_completion ends, by returning or by
\* raising; a call whose status requests all come back without a terminal
\* status ends with TimeoutError.
C32_PollTerminates ==
    /\ <>(pc \in {"returned", "raised"})
    /\ [](TerminalResponses = {} /\ error # "RuntimeError")
          => <>(pc = "raised" /\ error = "TimeoutError")

\* C32 witness: a call was answered "running", then "unknown", slept after
\* each, and ended with TimeoutError.
C32_Witness ==
    /\ InPoll /\ pc = "raised" /\ error = "TimeoutError"
    /\ Len(events) = 6
    /\ events[2][3] = "running"
    /\ events[5][3] = "unknown"

----------------------------------------------------------------------------
(* fetch_absorbance_results and parse_od_results of src/monomer/datasets.py *)

\* Bound: the number of timestamps of the readings of a plate.
MaxReadings == 3

\* Timestamps are the ticks 1..MaxReadings: the code sorts the timestamp
\* strings of resultsByWell, which for timestamps of one format is their
\* order in time.
Timestamps == 1..MaxReadings

\* A well that is in no experiment column.
OtherWell == well("A", 1)

\* The reading a well of row i (an index into ROWS) shows at tick ts when it
\* is measured: positive, and different from row to row and tick to tick.
od_value(ts, i) == ts * i

row_index(w) == CHOOSE i \in 1..Len(ROWS) : ROWS[i] = w[1]

\* What one timestamp holds: no well of the column ("none"), all of them with
\* the value 0 ("zeros"), or measured values, where the wells of rows A and C
\* may each be absent or 0 instead.
Presence == {"absent", "zero", "measured"}
ReadingKinds ==
    {[kind |-> "none", rowA |-> "absent", rowC |-> "absent"],
     [kind |-> "zeros", rowA |-> "zero", rowC |-> "zero"]}
    \cup [kind : {"measured"}, rowA : Presence, rowC : Presence]

presence_in(k, i) ==
    IF k.kind = "none" THEN "absent"
    ELSE IF k.kind = "zeros" THEN "zero"
    ELSE IF ROWS[i] = "A" THEN k.rowA
    ELSE IF ROWS[i] = "C" THEN k.rowC
    ELSE "measured"

\* The `wells` mapping of one timestamp of resultsByWell.
reading_of(ts, col, k) ==
    LET present == {well(ROWS[i], col) : i \in {j \in 1..Len(ROWS) : presence_in(k, j) # "absent"}}
    IN [w \in present \cup {OtherWell} |->
           IF w = OtherWell THEN ts
           ELSE IF presence_in(k, row_index(w)) = "zero" THEN 0
           ELSE od_value(ts, row_index(w))]

\* Line 78.
target_wells(col) == [i \in 1..Len(ROWS) |-> well(ROWS[i], col)]

\* Line 84: wells.get(w) as a condition: the key is there and its value is
\* not 0.
truthy(wells, w) == w \in DOMAIN wells /\ wells[w] # 0

\* Lines 79-85: the timestamps kept in column_readings.
column_readings(rs, col) ==
    {ts \in DOMAIN rs : \E i \in 1..Len(ROWS) : truthy(rs[ts], target_wells(col)[i])}

\* Lines 93-95: the first and the last of the sorted timestamps.
earliest(tss) == CHOOSE ts \in tss : \A other \in tss : ts <= other
latest(tss) == CHOOSE ts \in tss : \A other \in tss : ts >= other

\* Lines 102-103: float(well_data.get(well, 0.0)).
well_value_or_one(well_data, w) == get(well_data, w, 1)
well_value(well_data, w) == get(well_data, w, 0)

\* Lines 93-105: the returned mapping.
fetch_absorbance_results(rs, col) ==
    LET kept == column_readings(rs, col)
        targets == {target_wells(col)[i] : i \in 1..Len(ROWS)}
    IN [baseline |-> [w \in targets |-> well_value(rs[earliest(kept)], w)],
        endpoint |-> [w \in targets |-> well_value(rs[latest(kept)], w)]]

\* Lines 133-134: delta(well).
delta_od(absorbance_results, w) ==
    get(absorbance_results.endpoint, w, 0) - get(absorbance_results.baseline, w, 0)

\* Line 141.
row_pairs_from_control == << <<"A", "B">>, <<"C", "D">>, <<"E", "F">> >>
row_pairs == << <<"C", "D">>, <<"E", "F">>, <<"G", "H">> >>

\* Lines 129-151.
parse_od_results(absorbance_results, col) ==
    [control_od |-> delta_od(absorbance_results, well("A", col)),
     center_od |-> delta_od(absorbance_results, well("B", col)),
     perturbed_ods |->
         [n \in Names |->
             LET k == CHOOSE k \in 1..Len(SUPPLEMENT_NAMES) : SUPPLEMENT_NAMES[k] = n
             IN <<delta_od(absorbance_results, well(row_pairs[k][1], col)),
                  delta_od(absorbance_results, well(row_pairs[k][2], col))>>],
     abs_control_od |-> get(absorbance_results.endpoint, well("A", col), 0),
     abs_center_od |-> get(absorbance_results.endpoint, well("B", col), 0)]

\* starter_agent.py lines 197-200: the deltas of the destination wells.
starter_deltas(absorbance_results, dests) ==
    [w \in {dests[i] : i \in 1..Len(dests)} |-> delta_od(absorbance_results, w)]

\* The centers of the designs observed: the starting composition and the
\* all-zero one.
DesignedCenters ==
    {apply_constraints(as_proposed(START_COMPOSITION), DefaultCfg), [n \in Names |-> 0]}

\* The observe step of an iteration: the column just designed (basic_agent.py
\* lines 97-99), and the readings the plate has by then.
FetchInit ==
    /\ mode = "fetch"
    /\ pc = "start"
    /\ column_index \in {FIRST_COLUMN, LAST_COLUMN}
    /\ \E tss \in SUBSET Timestamps :
          \E kinds \in [tss -> ReadingKinds] :
              readings = [ts \in tss |-> reading_of(ts, column_index, kinds[ts])]
    /\ raw = None
    /\ NoMcp
    /\ now = 0 /\ deadline = 0 /\ poll_interval = 0 /\ events = <<>>
    /\ instance = None
    /\ agent = None /\ helpers = None /\ n_iterations = 0 /\ iteration = 0
    /\ dest_wells = column_wells(column_index) /\ monitoring_wells = <<>>
    /\ seed_well = <<>> /\ next_seed_well = <<>>
    /\ uuid = 0 /\ od = None /\ submissions = <<>> /\ polled = <<>>
    /\ outcomes = <<>> /\ log = <<>> /\ persisted = NoFile /\ error = ""
    /\ extra_inputs = NoExtraInputs
    /\ center \in DesignedCenters /\ solved = TRUE
    /\ transfers = generate_transfer_array(center, column_index, DELTA_UL)
    /\ parsed = None /\ adjustments = None /\ new_center = None /\ history = <<>>
    /\ cfg = DefaultCfg /\ supplements = None /\ result = None
    /\ pass = 1 /\ first = None
    /\ loop_count = 0
    /\ transfer_array = <<>> /\ original_array = <<>>
    /\ reuse_source_wells = NoReuseArg /\ tips = None /\ first_tips = None

fetch_fixed ==
    <<mode, solver_vars, center, solved, column_index, transfers, tip_vars,
      adjustments, new_center, history, agent, helpers, n_iterations, iteration,
      dest_wells, monitoring_wells, seed_well, next_seed_well, uuid, submissions,
      polled, outcomes, log, persisted, extra_inputs, now, deadline,
      poll_interval, events, instance, readings, mcp_vars>>

\* Lines 87-105: some timestamp has data for the column; the mapping is
\* returned.
Fetch ==
    /\ mode = "fetch" /\ pc = "start"
    /\ column_readings(readings, column_index) # {}
    /\ raw' = fetch_absorbance_results(readings, column_index)
    /\ pc' = "fetched"
    /\ UNCHANGED <<fetch_fixed, parsed, od, error>>

\* Lines 87-91: no timestamp has data for the column.
FetchNoReadings ==
    /\ mode = "fetch" /\ pc = "start"
    /\ column_readings(readings, column_index) = {}
    /\ pc' = "raised"
    /\ error' = "RuntimeError"
    /\ UNCHANGED <<fetch_fixed, raw, parsed, od>>

\* basic_agent.py line 136.
ParseOd ==
    /\ mode = "fetch" /\ pc = "fetched"
    /\ parsed' = parse_od_results(raw, column_index)
    /\ pc' = "parsed"
    /\ UNCHANGED <<fetch_fixed, raw, od, error>>

\* starter_agent.py lines 197-200.
StarterDeltas ==
    /\ mode = "fetch" /\ pc = "fetched"
    /\ od' = starter_deltas(raw, dest_wells)
    /\ pc' = "deltas"
    /\ UNCHANGED <<fetch_fixed, raw, parsed, error>>

FetchNext == Fetch \/ FetchNoReadings \/ ParseOd \/ StarterDeltas

FetchSpec == FetchInit /\ [][FetchNext]_vars

----------------------------------------------------------------------------
(* Properties of the observe step *)

Fetched == mode = "fetch" /\ pc \in {"fetched", "parsed", "deltas"}

\* The readings the returned baseline and endpoint were taken from.
BaselineReading == readings[earliest(column_readings(readings, column_index))]
EndpointReading == readings[latest(column_readings(readings, column_index))]

\* The wells of the column absent from both of them.
AbsentFromBoth ==
    {w \in {target_wells(column_index)[i] : i \in 1..Len(ROWS)} :
        w \notin DOMAIN BaselineReading /\ w \notin DOMAIN EndpointReading}

\* The delta reported for a well of row r of the column by parse_od_results.
parsed_delta(r) ==
    CASE r = "A" -> parsed.control_od
      [] r = "B" -> parsed.center_od
      [] OTHER ->
           LET k == CHOOSE k \in 1..Len(row_pairs) : r \in {row_pairs[k][1], row_pairs[k][2]}
           IN IF r = row_pairs[k][1]
              THEN parsed.perturbed_ods[SUPPLEMENT_NAMES[k]][1]
              ELSE parsed.perturbed_ods[SUPPLEMENT_NAMES[k]][2]

\* C33: a well of the column absent from the baseline reading has baseline
\* 0, one absent from the endpoint reading has endpoint 0, and a well absent
\* from both gets the delta 0 from parse_od_results and in the starter
\* agent's deltas; nothing is raised.
C33_MissingObservationIsZero ==
    Fetched =>
        /\ error = ""
        /\ \A i \in 1..Len(ROWS) :
              LET w == target_wells(column_index)[i]
              IN /\ w \notin DOMAIN BaselineReading => raw.baseline[w] = 0
                 /\ w \notin DOMAIN EndpointReading => raw.endpoint[w] = 0
        /\ pc = "parsed" => \A w \in AbsentFromBoth : parsed_delta(w[1]) = 0
        /\ pc = "deltas" => \A w \in AbsentFromBoth : od[w] = 0

\* C33 witnesses: the control well is absent from both readings used, which
\* differ, and its delta was reported by parse_od_results.
C33_Witness ==
    /\ mode = "fetch" /\ pc = "parsed"
    /\ well("A", column_index) \in AbsentFromBoth
    /\ BaselineReading # EndpointReading
    /\ parsed.control_od = 0
    /\ parsed.center_od > 0

\* The timestamps whose reading contains a well of the column, whatever its
\* value.
Containing ==
    {ts \in DOMAIN readings :
        \E i \in 1..Len(ROWS) : target_wells(column_index)[i] \in DOMAIN readings[ts]}

\* The value a reading shows for a well, 0 where it has none.
shown(wells, w) == IF w \in DOMAIN wells THEN wells[w] ELSE 0

\* C34: the returned baseline holds the values of the earliest reading that
\* contains any well of the column and the returned endpoint those of the
\* latest such reading, also when those wells are there with the value 0.
C34_EarliestAndLatest ==
    Fetched =>
        \A i \in 1..Len(ROWS) :
            LET w == target_wells(column_index)[i]
            IN /\ raw.baseline[w] = shown(readings[earliest(Containing)], w)
               /\ raw.endpoint[w] = shown(readings[latest(Containing)], w)

\* The rows of the column, other than the control's, in which the design
\* holds composition c.
RowsHolding(c) ==
    {ROWS[i] : i \in {j \in 2..Len(ROWS) :
        row_composition(transfers, well(ROWS[j], column_index)) = c}}

\* The delta of the well of row r in the fetched data.
fetched_delta(r) == raw.endpoint[well(r, column_index)] - raw.baseline[well(r, column_index)]

\* The fetched data tell the rows apart: no two rows have the same delta.
RowsDistinguished ==
    \A i, j \in 1..Len(ROWS) : i # j => fetched_delta(ROWS[i]) # fetched_delta(ROWS[j])

\* The rows whose deltas parse_od_results reports under factor f.
RowsReportedUnder(f) ==
    {r \in {ROWS[i] : i \in 1..Len(ROWS)} :
        fetched_delta(r) \in {parsed.perturbed_ods[f][1], parsed.perturbed_ods[f][2]}}

\* C35: for every factor f the two rows in which the design holds the
\* composition perturbed in f are the two rows whose deltas are reported
\* under f; row A is the control and row B the center in the design and in
\* the report; and the wells fetched are those of the column designed.
C35_RowsMatchFactors ==
    (mode = "fetch" /\ pc = "parsed" /\ RowsDistinguished) =>
        /\ \A f \in Names :
              /\ RowsHolding(PerturbedComposition(f)) = RowsReportedUnder(f)
              /\ Cardinality(RowsReportedUnder(f)) = 2
        /\ parsed.control_od = fetched_delta("A")
        /\ into(transfers, well("A", column_index)) = control_row(column_index)
        /\ parsed.center_od = fetched_delta("B")
        /\ RowsHolding(center) = {"B"}
        /\ \A i \in 1..Len(transfers) : dest_of(transfers[i])[2] = column_index
        /\ \A w \in DOMAIN raw.baseline \cup DOMAIN raw.endpoint : w[2] = column_index

\* C35 witness: the starting composition was designed into the last column,
\* every row was measured at two timestamps, and the deltas were parsed.
C35_Witness ==
    /\ mode = "fetch" /\ pc = "parsed" /\ RowsDistinguished
    /\ column_index = LAST_COLUMN
    /\ center["Glucose"] > 0
    /\ RowsReportedUnder("MgSO4") = {"G", "H"}

----------------------------------------------------------------------------
(* Seed wells and history of run_agent *)

\* The loop body of the basic agent is past line 88: the iteration has its
\* seed wells.
PastSeedAssignment == pc \in {"submit", "wait", "observe", "update"}

\* The seed wells an iteration is to have: row i of column 1, and the
\* following row or the empty string.
SeedWellsAsDocumented ==
    /\ iteration <= Len(ROWS)
    /\ seed_well = well(ROWS[iteration], 1)
    /\ next_seed_well =
           IF iteration < Len(ROWS) THEN well(ROWS[iteration + 1], 1) ELSE <<>>
    /\ \A j \in 1..Len(dest_wells) : dest_wells[j] # seed_well

\* C36: in the basic agent every iteration that has a column (the plate-full
\* check let it pass) gets its seed well, row i of column 1, with the
\* following row or "" as next seed well; no two iterations share a seed
\* well and the seed well is not a destination well.  Stated for helpers
\* that accept the agent's calls.
C36_SeedWellAdvances ==
    (InRun /\ agent = "basic" /\ helpers = "documented") =>
        /\ error # "IndexError"
        /\ PastSeedAssignment => SeedWellsAsDocumented
        /\ \A j, k \in 1..Len(history) :
              j # k => history[j].seed_well # history[k].seed_well

\* The iterations observed so far.
Observed == {k \in 1..MaxRequested : Logged("observe", k)}

\* Record k of the history is that of iteration k and of column k + 1.
InIterationOrder ==
    \A k \in 1..Len(history) :
        /\ history[k].iteration = k
        /\ IF agent = "basic" THEN history[k].column = k + 1
           ELSE history[k].column_index = k + 1

\* The fields of the records: the basic agent stores the center and the
\* parsed deltas, the starter agent the transfers and the deltas by well.
RecordFields ==
    \A k \in 1..Len(history) :
        DOMAIN history[k] =
            IF agent = "basic"
            THEN {"iteration", "column", "seed_well", "center", "parsed"}
            ELSE {"iteration", "column_index", "transfers", "od"}

\* A step leaves the history as it is or adds one record at its end, that of
\* the iteration being observed, with the center of that iteration.
AppendsOneRecord ==
    \/ history' = history
    \/ /\ pc = "observe"
       /\ Len(history') = Len(history) + 1
       /\ SubSeq(history', 1, Len(history)) = history
       /\ history'[Len(history')].iteration = iteration
       /\ agent = "basic" => history'[Len(history')].center = center

----------------------------------------------------------------------------
(* McpClient, src/monomer/mcp_client.py *)

\* The largest JSON-RPC id the behaviours use.
MaxRequestId == 6

\* The values resp.headers.get("mcp-session-id") can have: no such header,
\* an empty one, or a session id.
HeaderValues == {None, "", "session-1", "session-2"}

\* What requests.post and raise_for_status can raise.
RequestErrors == {"ConnectionError", "HTTPError"}

\* Lines 66 and 87: `not self.session_id`, true of None and of "".
is_none(session) == session = None
falsy(session) == session = None \/ session = ""

\* Lines 39-42: _get_id returns self._next_id and leaves the next one.
id_after(id_) == id_ + 1

\* A posted message: its method, its "id" member if it has one, and its
\* Mcp-Session-Id header if it has one.
request(method_name, id_, session) ==
    [method |-> method_name, has_id |-> TRUE, id |-> id_,
     has_session |-> session # None, session |-> session]
notification(method_name, session) ==
    [method |-> method_name, has_id |-> FALSE, id |-> 0,
     has_session |-> session # None, session |-> session]

\* Lines 31-37: the client after __init__.
McpInit ==
    /\ mode = "mcp"
    /\ pc = "ready"
    /\ NoMcp
    /\ NoFetch
    /\ now = 0 /\ deadline = 0 /\ poll_interval = 0 /\ events = <<>>
    /\ instance = None
    /\ agent = None /\ helpers = None /\ n_iterations = 0 /\ iteration = 0
    /\ dest_wells = <<>> /\ monitoring_wells = <<>>
    /\ seed_well = <<>> /\ next_seed_well = <<>>
    /\ uuid = 0 /\ od = None /\ submissions = <<>> /\ polled = <<>>
    /\ outcomes = <<>> /\ log = <<>> /\ persisted = NoFile /\ error = ""
    /\ extra_inputs = NoExtraInputs
    /\ center = None /\ solved = FALSE /\ column_index = 0 /\ transfers = <<>>
    /\ parsed = None /\ adjustments = None /\ new_center = None /\ history = <<>>
    /\ cfg = DefaultCfg /\ supplements = None /\ result = None
    /\ pass = 1 /\ first = None
    /\ loop_count = 0
    /\ transfer_array = <<>> /\ original_array = <<>>
    /\ reuse_source_wells = NoReuseArg /\ tips = None /\ first_tips = None

mcp_fixed ==
    <<mode, solver_vars, gen_vars, tip_vars, grad_vars, agent, helpers,
      n_iterations, iteration, dest_wells, monitoring_wells, seed_well,
      next_seed_well, uuid, od, submissions, polled, outcomes, log, persisted,
      extra_inputs, now, deadline, poll_interval, events, instance, fetch_vars>>

\* Lines 81-88: call_tool is entered; without a session it connects first.
CallTool ==
    /\ mode = "mcp" /\ pc = "ready"
    /\ id_after(next_id) <= MaxRequestId
    /\ pc' = IF falsy(session_id) THEN "connect" ELSE "call"
    /\ error' = ""
    /\ UNCHANGED <<mcp_fixed, session_id, next_id, sent>>

\* Lines 47-63: connect posts initialize, with a fresh id and no session
\* header.
Initialize ==
    /\ mode = "mcp" /\ pc = "connect"
    /\ sent' = Append(sent, request("initialize", next_id, None))
    /\ next_id' = id_after(next_id)
    /\ pc' = "initialize_sent"
    /\ UNCHANGED <<mcp_fixed, session_id, error>>

\* Lines 47-64: the post or raise_for_status raises.
InitializeFails ==
    /\ mode = "mcp" /\ pc = "initialize_sent"
    /\ \E e \in RequestErrors : error' = e
    /\ pc' = "ready"
    /\ UNCHANGED <<mcp_fixed, session_id, next_id, sent>>

\* Lines 65-67: the header is stored; without a session id connect raises.
InitializeAnswered ==
    /\ mode = "mcp" /\ pc = "initialize_sent"
    /\ \E header \in HeaderValues :
          /\ session_id' = header
          /\ IF falsy(header)
             THEN pc' = "ready" /\ error' = "RuntimeError"
             ELSE pc' = "notify" /\ error' = error
    /\ UNCHANGED <<mcp_fixed, next_id, sent>>

\* Lines 70-78: the initialized notification is posted, its answer ignored.
Notify ==
    /\ mode = "mcp" /\ pc = "notify"
    /\ sent' = Append(sent, notification("notifications/initialized", session_id))
    /\ pc' = "call"
    /\ UNCHANGED <<mcp_fixed, session_id, next_id, error>>

\* Lines 70-78: the post of the notification raises.
NotifyFails ==
    /\ mode = "mcp" /\ pc = "notify"
    /\ sent' = Append(sent, notification("notifications/initialized", session_id))
    /\ pc' = "ready"
    /\ error' = "ConnectionError"
    /\ UNCHANGED <<mcp_fixed, session_id, next_id>>

\* Lines 90-103: tools/call is posted with the session header and a fresh id.
ToolsCall ==
    /\ mode = "mcp" /\ pc = "call"
    /\ sent' = Append(sent, request("tools/call", next_id, session_id))
    /\ next_id' = id_after(next_id)
    /\ pc' = "tool_sent"
    /\ UNCHANGED <<mcp_fixed, session_id, error>>

\* Lines 90-104: the post or raise_for_status raises.
ToolsCallFails ==
    /\ mode = "mcp" /\ pc = "tool_sent"
    /\ \E e \in RequestErrors : error' = e
    /\ pc' = "ready"
    /\ UNCHANGED <<mcp_fixed, session_id, next_id, sent>>

\* Lines 106 on: the answer is parsed and returned.
ToolsCallReturns ==
    /\ mode = "mcp" /\ pc = "tool_sent"
    /\ pc' = "ready"
    /\ UNCHANGED <<mcp_fixed, session_id, next_id, sent, error>>

McpNext ==
    \/ CallTool \/ Initialize \/ InitializeFails \/ InitializeAnswered
    \/ Notify \/ NotifyFails \/ ToolsCall \/ ToolsCallFails \/ ToolsCallReturns

McpSpec == McpInit /\ [][McpNext]_vars

----------------------------------------------------------------------------
(* Properties of the MCP session *)

Posted(method_name) == {i \in 1..Len(sent) : sent[i].method = method_name}

\* Every tools/call carries a session id, and a handshake came before it.
ToolCallsInSession ==
    \A i \in Posted("tools/call") :
        /\ sent[i].has_session /\ sent[i].session # ""
        /\ \E j \in Posted("initialize") : j < i

\* The ids of the requests increase along the requests.
IdsIncrease ==
    \A i, j \in 1..Len(sent) :
        (i < j /\ sent[i].has_id /\ sent[j].has_id) => sent[i].id < sent[j].id

\* A step that posts `method_name`.
Posts(method_name) ==
    /\ Len(sent') = Len(sent) + 1
    /\ sent'[Len(sent')].method = method_name

\* A call entered without a session starts with the handshake, a handshake
\* is only posted without a session, and an answer without a session id
\* ends the call with RuntimeError and nothing more posted.
HandshakeDiscipline ==
    /\ (pc = "ready" /\ pc' # "ready" /\ session_id \in {None, ""})
          => pc' = "connect"
    /\ Posts("initialize") => session_id \in {None, ""}
    /\ Posts("tools/call") => sent'[Len(sent')].session = session_id
    /\ (pc = "initialize_sent" /\ session_id' \in {None, ""}
        /\ error' \notin RequestErrors)
          => (pc' = "ready" /\ error' = "RuntimeError" /\ sent' = sent)

\* C38: over any sequence of call_tool calls no tools/call is posted without
\* a session id, a call without a session runs the handshake first, a
\* handshake that yields no session id raises RuntimeError and posts no tool
\* call, no handshake is posted while a session exists, and the request ids
\* strictly increase and are never reused.
C38_SessionProtocol ==
    /\ [](mode = "mcp" => (ToolCallsInSession /\ IdsIncrease))
    /\ [][mode = "mcp" => HandshakeDiscipline]_vars

\* C38 witness: a first handshake yielded no session id, a second one did,
\* and two tool calls were posted in that session.
C38_Witness ==
    /\ mode = "mcp"
    /\ [i \in 1..Len(sent) |-> sent[i].method]
         = <<"initialize", "initialize", "notifications/initialized",
             "tools/call", "tools/call">>
    /\ sent[5].session = sent[4].session

====
